---- MODULE Spec2Model ----
(***************************************************************************)
(* Model of the PINAX batch chunk worker (PinaxBatchDO, SQLite variant):   *)
(* the durable tables, the alarm-driven state machine PROCESSING ->        *)
(* PUBLISHING -> CALLBACK -> DONE, the per-PI tasks of a pass, the object  *)
(* store's version chains and the orchestrator callback.                   *)
(*                                                                         *)
(* A handler is one action up to its next suspension point (await of the   *)
(* fan-out or of the callback POST); the tasks of a fan-out interleave.    *)
(* Writes made without an intervening await are committed together, so an  *)
(* interruption (Crash) is only observable at the suspension points.       *)
(***************************************************************************)
EXTENDS Integers, Sequences, FiniteSets, TLC

(* ---------------- bounds of the model ---------------- *)
MaxAdmissions == 2
MaxFaults == 1
MaxOtherAppends == 1
(* progressive truncation: items per call, tokens per item, target range *)
MaxItems == 3
MaxTokens == 4
MaxTarget == 8
MaxNegativeTarget == 2
(* truncateContent: longest content and largest character limit tried *)
MaxContentLength == 20
MaxChars == 20
(* fetchPinaxContext: a configured MODEL_MAX_TOKENS small enough to force   *)
(* truncation of the fetched files                                          *)
SmallModelMaxTokens == 8
(* applyTruncation followed by buildContentSection: files per list and the  *)
(* largest configured MODEL_MAX_TOKENS tried                                *)
MaxFiles == 3
MaxModelMaxTokens == 24

(* ---------------- program constants ---------------- *)
MAX_RETRIES_PER_PI == 3
MAX_CALLBACK_RETRIES == 3
ALARM_INTERVAL_MS == 100
ADMISSION_DELAY_MS == 100
CALLBACK_BASE_DELAY_MS == 1000
PUBLISH_MAX_RETRIES == 3
MODEL_MAX_TOKENS == 128000

NULL == 0
PIs == {"piA", "piB"}
(* The entity other writers append to (the PIs are interchangeable) *)
OtherTargets == {"piA"}
(* The pis arrays of the /process requests that are tried *)
ChunkInputs == {{}, {"piA"}, {"piA", "piB"}}
NoError == "NULL"

VARIABLES
    batch_state,    \* table batch_state: << >> or one row
    pi_list,        \* table pi_list
    pi_state,       \* table pi_state: PI -> row
    context_meta,   \* PIs with a context_meta row
    context_files,  \* PIs with a context_files row (idx 0)
    alarm,          \* the armed timer
    pc,             \* position of the running alarm handler
    tasks,          \* per-PI tasks of the running fan-out
    store,          \* object store: PI -> chain of appended versions
    posts,          \* callback POSTs made in this chunk run
    lastPayload,    \* << >> or the last callback payload sent
    admissions,     \* chunk runs admitted so far
    faults,         \* interruptions and uncaught exceptions so far
    others,         \* appends made by other writers so far
    response,       \* the response returned by the step just taken, if any
    call            \* a call of one of the library functions: input and result

vars == << batch_state, pi_list, pi_state, context_meta, context_files, alarm,
           pc, tasks, store, posts, lastPayload, admissions, faults, others,
           response, call >>

(* The variables of the chunk worker *)
machineVars ==
    << batch_state, pi_list, pi_state, context_meta, context_files, alarm,
       pc, tasks, store, posts, lastPayload, admissions, faults, others,
       response >>

(* ---------------- helpers ---------------- *)
RECURSIVE Pow2(_)
Pow2(n) == IF n <= 0 THEN 1 ELSE 2 * Pow2(n - 1)

NoAlarm == [armed |-> FALSE, delay |-> 0]
SetAlarm(d) == [armed |-> TRUE, delay |-> d]

HasChunk == Len(batch_state) > 0
Phase == batch_state[1].phase

NoTask ==
    [st |-> "none", cid |-> NULL, attempt |-> 0, tip |-> NULL, tipAt |-> 0,
     newTip |-> NULL, newVer |-> NULL, reason |-> "none"]
NoTasks == [p \in PIs |-> NoTask]

FreshRow ==
    [status |-> "pending", retry_count |-> 0, pinax_json |-> NULL,
     pinax_cid |-> NULL, new_tip |-> NULL, new_version |-> NULL,
     error |-> NoError]

FreshBatch ==
    [phase |-> "PROCESSING", completed_at |-> FALSE,
     callback_retry_count |-> 0, global_error |-> NULL]

Rows == DOMAIN pi_state

(* No library function is being called *)
NoCall == [fn |-> "none", done |-> FALSE]

(* The JSON bodies handleProcess returns; NoResponse when the step just     *)
(* taken was not a request.                                                 *)
NoResponse == [status |-> "none", phase |-> "none", total_pis |-> 0]
AlreadyProcessing(phase) ==
    [status |-> "already_processing", phase |-> phase, total_pis |-> 0]
Accepted(pis) ==
    [status |-> "accepted", phase |-> "none", total_pis |-> Cardinality(pis)]

(* scheduleNextAlarm *)
scheduleNextAlarm == SetAlarm(ALARM_INTERVAL_MS)

(* The message of the exception raised as the n-th fault of the run; two   *)
(* exceptions carry different messages.                                     *)
ErrorMessage(n) == n

(* The catch block of alarm(): UPDATE batch_state SET phase = 'CALLBACK',   *)
(* global_error = message (no row: the UPDATE changes nothing).             *)
(* Mutant: the catch block restarts the chunk from PROCESSING *)
AlarmCatch_Restart(bs, message) ==
    IF Len(bs) = 0 THEN bs
    ELSE << [bs[1] EXCEPT !.phase = "PROCESSING", !.global_error = message] >>

AlarmCatch(bs, message) ==
    IF Len(bs) = 0 THEN bs
    ELSE << [bs[1] EXCEPT !.phase = "CALLBACK", !.global_error = message] >>

(* A pass that ends with scheduleNextAlarm: either it returns, or the call  *)
(* throws after the pass's writes and the catch block of alarm() runs.      *)
EndOfPass(bs, thr) ==
    IF thr THEN AlarmCatch(bs, ErrorMessage(faults + 1)) ELSE bs

MachineInit ==
    /\ batch_state = << >>
    /\ pi_list = {}
    /\ pi_state = [p \in {} |-> FreshRow]
    /\ context_meta = {}
    /\ context_files = {}
    /\ alarm = NoAlarm
    /\ pc = "idle"
    /\ tasks = NoTasks
    /\ store = [p \in PIs |-> << >>]
    /\ posts = 0
    /\ lastPayload = << >>
    /\ admissions = 0
    /\ faults = 0
    /\ others = 0
    /\ response = NoResponse

Init == MachineInit /\ call = NoCall

(* ---------------- POST /process ---------------- *)
(* Mutant: a chunk in CALLBACK is taken for a finished one *)
Admissible_CallbackToo(bs) ==
    IF Len(bs) = 0 THEN TRUE ELSE bs[1].phase \in {"CALLBACK", "DONE", "ERROR"}

(* No chunk row, or a chunk row in DONE or ERROR *)
Admissible(bs) == IF Len(bs) = 0 THEN TRUE ELSE bs[1].phase \in {"DONE", "ERROR"}

(* Mutant: the rows of the earlier run are never deleted *)
ClearOldState_Never(bs, table, empty) == table

(* "Clear old state for reprocessing": the DELETEs run only when a chunk    *)
(* row was found; without one the table is left as it is.                   *)
ClearOldState(bs, table, empty) == IF Len(bs) > 0 THEN empty ELSE table

(* INSERT INTO pi_state (pi, status, retry_count) VALUES (pi, 'pending', 0) *)
(* for each pi of the request, on top of the rows that were left.           *)
InsertRows(left, pis) ==
    [p \in pis \cup DOMAIN left |-> IF p \in pis THEN FreshRow ELSE left[p]]

handleProcess(pis) ==
    \/ /\ ~Admissible(batch_state)
       /\ response' = AlreadyProcessing(Phase)
       /\ UNCHANGED << batch_state, pi_list, pi_state, context_meta,
                       context_files, alarm, pc, tasks, store, posts,
                       lastPayload, admissions, faults, others, call >>
    \/ /\ Admissible(batch_state)
       /\ admissions < MaxAdmissions
       /\ admissions' = admissions + 1
       /\ batch_state' = << FreshBatch >>
       /\ pi_list' = ClearOldState(batch_state, pi_list, {}) \cup pis
       /\ pi_state' =
            InsertRows(ClearOldState(batch_state, pi_state,
                                     [p \in {} |-> FreshRow]), pis)
       /\ context_meta' = ClearOldState(batch_state, context_meta, {})
       /\ context_files' = ClearOldState(batch_state, context_files, {})
       /\ alarm' = SetAlarm(ADMISSION_DELAY_MS)
       /\ posts' = 0
       /\ lastPayload' = << >>
       /\ response' = Accepted(pis)
       /\ UNCHANGED << pc, tasks, store, faults, others, call >>

(* ---------------- alarm(): PROCESSING ---------------- *)
AlarmFires == alarm.armed /\ pc = "idle" /\ HasChunk

(* SELECT pi FROM pi_state WHERE status = 'pending' *)
PendingRows(rows) == {p \in DOMAIN rows : rows[p].status = "pending"}

(* The exit test of processPhase *)
ProcessingComplete(rows) == PendingRows(rows) = {}

(* Mutant: the retry budget is compared with > instead of >= *)
ProcessFailure_OffByOne(row) ==
    LET newRetry == row.retry_count + 1 IN
    IF newRetry > MAX_RETRIES_PER_PI
    THEN [row EXCEPT !.status = "error", !.retry_count = newRetry,
                     !.error = "extract"]
    ELSE [row EXCEPT !.status = "pending", !.retry_count = newRetry]

(* The failure branch of the result loop of processPhase *)
ProcessFailure(row) ==
    LET newRetry == row.retry_count + 1 IN
    IF newRetry >= MAX_RETRIES_PER_PI
    THEN [row EXCEPT !.status = "error", !.retry_count = newRetry,
                     !.error = "extract"]
    ELSE [row EXCEPT !.status = "pending", !.retry_count = newRetry]

(* Mutant: a fulfilled task marks the row done without storing the record *)
ProcessSuccess_NoRecord(row) == [row EXCEPT !.status = "done"]

(* The success branch of the result loop of processPhase *)
ProcessSuccess(row) == [row EXCEPT !.status = "done", !.pinax_json = 1]

(* Mutant: the cached context is deleted only for the PIs whose task failed *)
ClearedContext_FailedOnly(ts) == {p \in PIs : ts[p].st = "rejected"}

(* "Clear context after processing (success or failure)": the DELETEs at    *)
(* the head of the result loop run for every PI of the fan-out.             *)
ClearedContext(ts) == {p \in PIs : ts[p].st # "none"}

Settled(t) == t.st \in {"fulfilled", "rejected"}
Launched == {p \in PIs : tasks[p].st # "none"}

processPhaseExit(thr) ==
    /\ AlarmFires
    /\ Phase = "PROCESSING"
    /\ ProcessingComplete(pi_state)
    /\ thr => faults < MaxFaults
    /\ batch_state' =
         EndOfPass(<< [batch_state[1] EXCEPT !.phase = "PUBLISHING"] >>, thr)
    /\ alarm' = scheduleNextAlarm
    /\ faults' = IF thr THEN faults + 1 ELSE faults
    /\ UNCHANGED << pi_list, pi_state, context_meta, context_files, pc,
                    tasks, store, posts, lastPayload, others, admissions >>
    /\ response' = NoResponse
    /\ UNCHANGED call

processPhaseBegin ==
    /\ AlarmFires
    /\ Phase = "PROCESSING"
    /\ ~ProcessingComplete(pi_state)
    /\ pi_state' = [p \in Rows |->
                      IF p \in PendingRows(pi_state)
                      THEN [pi_state[p] EXCEPT !.status = "processing"]
                      ELSE pi_state[p]]
    /\ tasks' = [p \in PIs |->
                   IF p \in PendingRows(pi_state)
                   THEN [NoTask EXCEPT !.st = "context"]
                   ELSE NoTask]
    /\ pc' = "process_wait"
    /\ alarm' = NoAlarm
    /\ UNCHANGED << batch_state, pi_list, context_meta, context_files, store,
                    posts, lastPayload, faults, others, admissions >>
    /\ response' = NoResponse
    /\ UNCHANGED call

(* processPI up to the extraction call: loadContext, else fetchPinaxContext *)
(* and saveContext. A context without files yields the minimal record.      *)
processPIContext(p) ==
    /\ pc = "process_wait"
    /\ tasks[p].st = "context"
    /\ IF p \in context_meta
       THEN /\ tasks' = [tasks EXCEPT ![p].st =
                         IF p \in context_files THEN "extract" ELSE "fulfilled"]
            /\ UNCHANGED << context_meta, context_files >>
       ELSE \E fetched \in {"fail", "empty", "files"} :
               IF fetched = "fail"
               THEN /\ tasks' = [tasks EXCEPT ![p].st = "rejected"]
                    /\ UNCHANGED << context_meta, context_files >>
               ELSE /\ context_meta' = context_meta \cup {p}
                    /\ context_files' =
                         IF fetched = "files" THEN context_files \cup {p}
                         ELSE context_files
                    /\ tasks' = [tasks EXCEPT ![p].st =
                         IF fetched = "files" THEN "extract" ELSE "fulfilled"]
    /\ UNCHANGED << batch_state, pi_list, pi_state, alarm, pc, store, posts,
                    lastPayload, faults, others, admissions >>
    /\ response' = NoResponse
    /\ UNCHANGED call

(* processPI: the extractMetadata call *)
processPIExtract(p) ==
    /\ pc = "process_wait"
    /\ tasks[p].st = "extract"
    /\ \E ok \in BOOLEAN :
         tasks' = [tasks EXCEPT ![p].st = IF ok THEN "fulfilled" ELSE "rejected"]
    /\ UNCHANGED << batch_state, pi_list, pi_state, context_meta,
                    context_files, alarm, pc, store, posts, lastPayload,
                    faults, others, admissions >>
    /\ response' = NoResponse
    /\ UNCHANGED call

(* processPhase after Promise.allSettled: the result loop *)
processPhaseCollect(thr) ==
    /\ pc = "process_wait"
    /\ \A p \in Launched : Settled(tasks[p])
    /\ thr => faults < MaxFaults
    /\ context_meta' = context_meta \ ClearedContext(tasks)
    /\ context_files' = context_files \ ClearedContext(tasks)
    /\ pi_state' = [p \in Rows |->
                      IF tasks[p].st = "fulfilled" THEN ProcessSuccess(pi_state[p])
                      ELSE IF tasks[p].st = "rejected" THEN ProcessFailure(pi_state[p])
                      ELSE pi_state[p]]
    /\ batch_state' = EndOfPass(batch_state, thr)
    /\ alarm' = scheduleNextAlarm
    /\ faults' = IF thr THEN faults + 1 ELSE faults
    /\ pc' = "idle"
    /\ tasks' = NoTasks
    /\ UNCHANGED << pi_list, store, posts, lastPayload, others, admissions >>
    /\ response' = NoResponse
    /\ UNCHANGED call

(* ---------------- interruptions ---------------- *)
(* The worker is stopped while a handler is suspended; the committed rows   *)
(* stay, the handler's tasks are gone, and the runtime runs alarm() again.  *)
Crash ==
    /\ pc # "idle"
    /\ faults < MaxFaults
    /\ faults' = faults + 1
    /\ pc' = "idle"
    /\ tasks' = NoTasks
    /\ alarm' = SetAlarm(0)
    /\ UNCHANGED << batch_state, pi_list, pi_state, context_meta,
                    context_files, store, posts, lastPayload, others,
                    admissions >>
    /\ response' = NoResponse
    /\ UNCHANGED call

(* A pass throws at its first statement, before any write: the catch block  *)
(* of alarm() runs whatever the phase was.                                  *)
alarmThrow ==
    /\ AlarmFires
    /\ faults < MaxFaults
    /\ faults' = faults + 1
    /\ batch_state' = AlarmCatch(batch_state, ErrorMessage(faults + 1))
    /\ alarm' = scheduleNextAlarm
    /\ UNCHANGED << pi_list, pi_state, context_meta, context_files, pc,
                    tasks, store, posts, lastPayload, others, admissions >>
    /\ response' = NoResponse
    /\ UNCHANGED call

(* ---------------- object store ---------------- *)
(* An entity's chain holds one record per appended version; the tip of a    *)
(* chain of n appended versions is n + 1 (the entity starts at version 1).  *)
(* A record keeps who appended and the expect_tip of the request.           *)
CurrentTip(chain) == Len(chain) + 1

(* POST /entities/<pi>/versions {expect_tip}: compare-and-swap on the tip   *)
TipMatches(chain, expect) == expect = CurrentTip(chain)
StoreAppend(chain, by, expect) ==
    IF TipMatches(chain, expect)
    THEN Append(chain, [by |-> by, expect |-> expect])
    ELSE chain

OtherWriterAppend(p) ==
    /\ pc = "publish_wait"
    /\ others < MaxOtherAppends
    /\ others' = others + 1
    /\ store' = [store EXCEPT ![p] = StoreAppend(@, "other", CurrentTip(@))]
    /\ UNCHANGED << batch_state, pi_list, pi_state, context_meta,
                    context_files, alarm, pc, tasks, posts, lastPayload,
                    faults, admissions >>
    /\ response' = NoResponse
    /\ UNCHANGED call

(* ---------------- alarm(): PUBLISHING ---------------- *)
(* Mutant: every done row is selected, published or not *)
ToPublish_AllDone(rows) == {p \in DOMAIN rows : rows[p].status = "done"}

(* SELECT pi FROM pi_state WHERE status = 'done' AND pinax_cid IS NULL *)
ToPublish(rows) ==
    {p \in DOMAIN rows : rows[p].status = "done" /\ rows[p].pinax_cid = NULL}

(* Mutant: the exit test of publishPhase looks for pending rows only *)
PublishingComplete_PendingOnly(rows) == PendingRows(rows) = {}

(* The exit test of publishPhase *)
PublishingComplete(rows) == ToPublish(rows) = {}

(* Mutant: the entity is not read again inside the retried closure *)
AttemptStart_NoRefresh == "append"

(* The closure publishPI hands to withRetry starts with getEntity(pi) *)
AttemptStart == "get"

(* withRetry(fn, {maxRetries, baseDelayMs}): a failed attempt is followed   *)
(* by another one until maxRetries attempts were made, then it rejects.     *)
withRetryFailed(t, maxRetries) ==
    IF t.attempt < maxRetries
    THEN [t EXCEPT !.attempt = t.attempt + 1, !.st = AttemptStart]
    ELSE [t EXCEPT !.st = "rejected", !.reason = "exhausted", !.tip = NULL,
                   !.tipAt = 0]

(* publishPI: const entity = await getEntity(pi) inside the retried closure *)
EntityRead(t, tip) == [t EXCEPT !.tip = tip, !.tipAt = t.attempt, !.st = "append"]

(* publishPI: the expect_tip handed to appendVersion *)
ExpectTip(t) == t.tip

(* Mutant: the tip read before the append is persisted as new_tip *)
PublishSuccess_StaleTip(row, t) ==
    [row EXCEPT !.pinax_cid = t.cid, !.new_tip = t.newTip - 1,
                !.new_version = t.newVer]

(* The result loop of publishPhase *)
PublishSuccess(row, t) ==
    [row EXCEPT !.pinax_cid = t.cid, !.new_tip = t.newTip,
                !.new_version = t.newVer]

(* Mutant: a rejected task also records a cid *)
PublishFailure_WithCid(row) ==
    [row EXCEPT !.status = "error", !.error = "publish", !.pinax_cid = 1]

(* Mutant: a PI whose publish failed is sent back to be processed again *)
PublishFailure_Reprocess(row) ==
    [row EXCEPT !.status = "pending", !.error = "publish"]

(* The failure branch of the result loop of publishPhase *)
PublishFailure(row) == [row EXCEPT !.status = "error", !.error = "publish"]

publishPhaseExit(thr) ==
    /\ AlarmFires
    /\ Phase = "PUBLISHING"
    /\ PublishingComplete(pi_state)
    /\ thr => faults < MaxFaults
    /\ batch_state' =
         EndOfPass(<< [batch_state[1] EXCEPT !.phase = "CALLBACK"] >>, thr)
    /\ alarm' = scheduleNextAlarm
    /\ faults' = IF thr THEN faults + 1 ELSE faults
    /\ UNCHANGED << pi_list, pi_state, context_meta, context_files, pc,
                    tasks, store, posts, lastPayload, others, admissions >>
    /\ response' = NoResponse
    /\ UNCHANGED call

publishPhaseBegin ==
    /\ AlarmFires
    /\ Phase = "PUBLISHING"
    /\ ~PublishingComplete(pi_state)
    /\ tasks' = [p \in PIs |->
                   IF p \in ToPublish(pi_state)
                   THEN [NoTask EXCEPT !.st = "upload"]
                   ELSE NoTask]
    /\ pc' = "publish_wait"
    /\ alarm' = NoAlarm
    /\ UNCHANGED << batch_state, pi_list, pi_state, context_meta,
                    context_files, store, posts, lastPayload, faults, others,
                    admissions >>
    /\ response' = NoResponse
    /\ UNCHANGED call

(* publishPI: uploadContent(pinaxJson, 'pinax.json') *)
uploadContent(p) ==
    /\ pc = "publish_wait"
    /\ tasks[p].st = "upload"
    /\ \E ok \in BOOLEAN :
         tasks' = [tasks EXCEPT ![p] =
                     IF ok THEN [@ EXCEPT !.cid = 1, !.attempt = 1, !.st = AttemptStart]
                     ELSE [@ EXCEPT !.st = "rejected", !.reason = "upload"]]
    /\ UNCHANGED << batch_state, pi_list, pi_state, context_meta,
                    context_files, alarm, pc, store, posts, lastPayload,
                    faults, others, admissions >>
    /\ response' = NoResponse
    /\ UNCHANGED call

(* publishPI: getEntity(pi) of one attempt *)
getEntity(p) ==
    /\ pc = "publish_wait"
    /\ tasks[p].st = "get"
    /\ \E ok \in BOOLEAN :
         tasks' = [tasks EXCEPT ![p] =
                     IF ok THEN EntityRead(@, CurrentTip(store[p]))
                     ELSE withRetryFailed(@, PUBLISH_MAX_RETRIES)]
    /\ UNCHANGED << batch_state, pi_list, pi_state, context_meta,
                    context_files, alarm, pc, store, posts, lastPayload,
                    faults, others, admissions >>
    /\ response' = NoResponse
    /\ UNCHANGED call

(* publishPI: appendVersion(pi, entity.tip, ...) of one attempt. The request *)
(* fails without effect ("error") or is answered by the store: 2xx when the *)
(* tip matched, a failure otherwise.                                        *)
appendVersion(p) ==
    /\ pc = "publish_wait"
    /\ tasks[p].st = "append"
    /\ \E outcome \in {"error", "answered"} :
         LET t == tasks[p]
             applied == outcome # "error" /\ TipMatches(store[p], ExpectTip(t))
             after == IF applied
                      THEN StoreAppend(store[p], "worker", ExpectTip(t))
                      ELSE store[p]
         IN /\ store' = [store EXCEPT ![p] = after]
            /\ tasks' = [tasks EXCEPT ![p] =
                 IF applied
                 THEN [t EXCEPT !.st = "fulfilled", !.tip = NULL, !.tipAt = 0,
                                !.newTip = CurrentTip(after),
                                !.newVer = CurrentTip(after)]
                 ELSE withRetryFailed(t, PUBLISH_MAX_RETRIES)]
    /\ UNCHANGED << batch_state, pi_list, pi_state, context_meta,
                    context_files, alarm, pc, posts, lastPayload, faults,
                    others, admissions >>
    /\ response' = NoResponse
    /\ UNCHANGED call

(* publishPhase after Promise.allSettled: the result loop *)
publishPhaseCollect(thr) ==
    /\ pc = "publish_wait"
    /\ \A p \in Launched : Settled(tasks[p])
    /\ thr => faults < MaxFaults
    /\ pi_state' = [p \in Rows |->
                      IF tasks[p].st = "fulfilled"
                      THEN PublishSuccess(pi_state[p], tasks[p])
                      ELSE IF tasks[p].st = "rejected"
                      THEN PublishFailure(pi_state[p])
                      ELSE pi_state[p]]
    /\ batch_state' = EndOfPass(batch_state, thr)
    /\ alarm' = scheduleNextAlarm
    /\ faults' = IF thr THEN faults + 1 ELSE faults
    /\ pc' = "idle"
    /\ tasks' = NoTasks
    /\ UNCHANGED << pi_list, context_meta, context_files, store, posts,
                    lastPayload, others, admissions >>
    /\ response' = NoResponse
    /\ UNCHANGED call

(* ---------------- alarm(): CALLBACK ---------------- *)
Succeeded(rows) ==
    {p \in DOMAIN rows : rows[p].status = "done" /\ rows[p].new_tip # NULL}
Failed(rows) == {p \in DOMAIN rows : rows[p].status = "error"}

(* Mutant: the test for "no successes" comes before the one for "no failures" *)
PayloadStatus_ErrorFirst(nSucceeded, nFailed) ==
    IF nSucceeded = 0 THEN "error"
    ELSE IF nFailed = 0 THEN "success" ELSE "partial"

(* failed.length === 0 ? 'success' : succeeded.length === 0 ? 'error' : 'partial' *)
PayloadStatus(nSucceeded, nFailed) ==
    IF nFailed = 0 THEN "success"
    ELSE IF nSucceeded = 0 THEN "error" ELSE "partial"

(* Mutant: the payload is built without the chunk's global_error *)
BuildPayload_NoError(bs, rows) ==
    [status |-> PayloadStatus(Cardinality(Succeeded(rows)),
                              Cardinality(Failed(rows))),
     results |-> [p \in DOMAIN rows |->
                    IF rows[p].status = "done" /\ rows[p].new_tip # NULL
                    THEN "success" ELSE "error"],
     total |-> Cardinality(DOMAIN rows),
     succeeded |-> Cardinality(Succeeded(rows)),
     failed |-> Cardinality(Failed(rows)),
     error |-> NULL]

(* Mutant: only the PI rows that reached done or error are reported *)
BuildPayload_TerminalOnly(bs, rows) ==
    [status |-> PayloadStatus(Cardinality(Succeeded(rows)),
                              Cardinality(Failed(rows))),
     results |-> [p \in {q \in DOMAIN rows :
                            rows[q].status \in {"done", "error"}} |->
                    IF rows[p].status = "done" /\ rows[p].new_tip # NULL
                    THEN "success" ELSE "error"],
     total |-> Cardinality(Succeeded(rows)) + Cardinality(Failed(rows)),
     succeeded |-> Cardinality(Succeeded(rows)),
     failed |-> Cardinality(Failed(rows)),
     error |-> bs.global_error]

(* Mutant: a chunk with a global error is reported with status "error" *)
BuildPayload_GlobalErrorStatus(bs, rows) ==
    [status |-> IF bs.global_error # NULL THEN "error"
                ELSE PayloadStatus(Cardinality(Succeeded(rows)),
                                   Cardinality(Failed(rows))),
     results |-> [p \in DOMAIN rows |->
                    IF rows[p].status = "done" /\ rows[p].new_tip # NULL
                    THEN "success" ELSE "error"],
     total |-> Cardinality(DOMAIN rows),
     succeeded |-> Cardinality(Succeeded(rows)),
     failed |-> Cardinality(Failed(rows)),
     error |-> bs.global_error]

(* The payload callbackPhase builds from the chunk row and the PI rows *)
BuildPayload(bs, rows) ==
    [status |-> PayloadStatus(Cardinality(Succeeded(rows)),
                              Cardinality(Failed(rows))),
     results |-> [p \in DOMAIN rows |->
                    IF rows[p].status = "done" /\ rows[p].new_tip # NULL
                    THEN "success" ELSE "error"],
     total |-> Cardinality(DOMAIN rows),
     succeeded |-> Cardinality(Succeeded(rows)),
     failed |-> Cardinality(Failed(rows)),
     error |-> bs.global_error]

(* Mutant: the backoff uses the count before the increment *)
CallbackDelay_PreIncrement(retryCount) ==
    CALLBACK_BASE_DELAY_MS * Pow2(retryCount - 1)

(* 1000 * Math.pow(2, retryCount) *)
CallbackDelay(retryCount) == CALLBACK_BASE_DELAY_MS * Pow2(retryCount)

(* Mutant: the callback budget is compared with > instead of >= *)
CallbackFailureRow_OffByOne(b) ==
    LET retryCount == b.callback_retry_count + 1 IN
    IF retryCount > MAX_CALLBACK_RETRIES
    THEN [b EXCEPT !.phase = "DONE", !.completed_at = TRUE,
                   !.callback_retry_count = retryCount]
    ELSE [b EXCEPT !.callback_retry_count = retryCount]

(* The catch branch of callbackPhase, applied to the chunk row *)
CallbackFailureRow(b) ==
    LET retryCount == b.callback_retry_count + 1 IN
    IF retryCount >= MAX_CALLBACK_RETRIES
    THEN [b EXCEPT !.phase = "DONE", !.completed_at = TRUE,
                   !.callback_retry_count = retryCount]
    ELSE [b EXCEPT !.callback_retry_count = retryCount]

(* Mutant: a failed callback that is to be retried arms no timer *)
CallbackFailureAlarm_NoRearm(b) ==
    LET retryCount == b.callback_retry_count + 1 IN
    IF retryCount >= MAX_CALLBACK_RETRIES
    THEN scheduleNextAlarm
    ELSE NoAlarm

(* The timer the catch branch of callbackPhase arms *)
CallbackFailureAlarm(b) ==
    LET retryCount == b.callback_retry_count + 1 IN
    IF retryCount >= MAX_CALLBACK_RETRIES
    THEN scheduleNextAlarm
    ELSE SetAlarm(CallbackDelay(retryCount))

(* The 2xx branch of callbackPhase *)
CallbackSuccessRow(b) == [b EXCEPT !.phase = "DONE", !.completed_at = TRUE]

callbackPhaseSend ==
    /\ AlarmFires
    /\ Phase = "CALLBACK"
    /\ lastPayload' = << BuildPayload(batch_state[1], pi_state) >>
    /\ posts' = posts + 1
    /\ pc' = "callback_wait"
    /\ alarm' = NoAlarm
    /\ UNCHANGED << batch_state, pi_list, pi_state, context_meta,
                    context_files, tasks, store, faults, others, admissions >>
    /\ response' = NoResponse
    /\ UNCHANGED call

callbackPhaseResponse ==
    /\ pc = "callback_wait"
    /\ \E ok \in BOOLEAN :
         IF ok
         THEN /\ batch_state' = << CallbackSuccessRow(batch_state[1]) >>
              /\ alarm' = scheduleNextAlarm
         ELSE /\ batch_state' = << CallbackFailureRow(batch_state[1]) >>
              /\ alarm' = CallbackFailureAlarm(batch_state[1])
    /\ pc' = "idle"
    /\ UNCHANGED << pi_list, pi_state, context_meta, context_files, tasks,
                    store, posts, lastPayload, faults, others, admissions >>
    /\ response' = NoResponse
    /\ UNCHANGED call

(* ---------------- alarm(): DONE / ERROR ---------------- *)
(* Mutant: a DELETE of cleanup leaves the table as it is *)
DeleteAll_Keep(table, empty) == table

(* DELETE FROM <table> *)
DeleteAll(table, empty) == empty

cleanup ==
    /\ AlarmFires
    /\ Phase \in {"DONE", "ERROR"}
    /\ batch_state' = DeleteAll(batch_state, << >>)
    /\ pi_list' = DeleteAll(pi_list, {})
    /\ pi_state' = DeleteAll(pi_state, [p \in {} |-> FreshRow])
    /\ context_meta' = DeleteAll(context_meta, {})
    /\ context_files' = DeleteAll(context_files, {})
    /\ alarm' = NoAlarm
    /\ UNCHANGED << pc, tasks, store, posts, lastPayload, faults, others,
                    admissions >>
    /\ response' = NoResponse
    /\ UNCHANGED call

(* ---------------- specification ---------------- *)
Next ==
    \/ \E pis \in ChunkInputs : handleProcess(pis)
    \/ \E thr \in BOOLEAN : processPhaseExit(thr)
    \/ processPhaseBegin
    \/ \E p \in PIs : processPIContext(p)
    \/ \E p \in PIs : processPIExtract(p)
    \/ \E thr \in BOOLEAN : processPhaseCollect(thr)
    \/ \E thr \in BOOLEAN : publishPhaseExit(thr)
    \/ publishPhaseBegin
    \/ \E p \in PIs : uploadContent(p)
    \/ \E p \in PIs : getEntity(p)
    \/ \E p \in PIs : appendVersion(p)
    \/ \E thr \in BOOLEAN : publishPhaseCollect(thr)
    \/ callbackPhaseSend
    \/ callbackPhaseResponse
    \/ cleanup
    \/ \E p \in OtherTargets : OtherWriterAppend(p)
    \/ Crash
    \/ alarmThrow

Spec == Init /\ [][Next]_vars

(* The timer fires and every external call returns: while some step of a   *)
(* handler is possible, a step of a handler is eventually taken. Requests,  *)
(* interruptions, uncaught exceptions and other writers need not happen.    *)
HandlerStep ==
    \/ \E thr \in BOOLEAN : processPhaseExit(thr)
    \/ processPhaseBegin
    \/ \E p \in PIs : processPIContext(p)
    \/ \E p \in PIs : processPIExtract(p)
    \/ \E thr \in BOOLEAN : processPhaseCollect(thr)
    \/ \E thr \in BOOLEAN : publishPhaseExit(thr)
    \/ publishPhaseBegin
    \/ \E p \in PIs : uploadContent(p)
    \/ \E p \in PIs : getEntity(p)
    \/ \E p \in PIs : appendVersion(p)
    \/ \E thr \in BOOLEAN : publishPhaseCollect(thr)
    \/ callbackPhaseSend
    \/ callbackPhaseResponse
    \/ cleanup

Fairness == WF_vars(HandlerStep)

LiveSpec == Spec /\ Fairness

(* ================= progressive-truncation.ts ================= *)
(* Numbers are exact fractions n/d with d > 0; d = 0 stands for NaN (the    *)
(* result of 0/0). The rounding of floating-point arithmetic is not         *)
(* modelled.                                                                *)
Num(k) == [n |-> k, d |-> 1]
NaN == [n |-> 0, d |-> 0]
IsNaN(x) == x.d = 0
Lt(x, y) == ~IsNaN(x) /\ ~IsNaN(y) /\ x.n * y.d < y.n * x.d
Le(x, y) == ~IsNaN(x) /\ ~IsNaN(y) /\ x.n * y.d <= y.n * x.d
Eq(x, y) == ~IsNaN(x) /\ ~IsNaN(y) /\ x.n * y.d = y.n * x.d
Plus(x, y) ==
    IF IsNaN(x) \/ IsNaN(y) THEN NaN
    ELSE [n |-> x.n * y.d + y.n * x.d, d |-> x.d * y.d]
(* a / b of two integers: 0/0 is NaN (x/0 with x # 0 does not occur) *)
Div(a, b) == IF b = 0 THEN NaN ELSE [n |-> a, d |-> b]
(* Math.floor *)
Floor(x) == IF IsNaN(x) THEN NaN ELSE Num(x.n \div x.d)

(* estimateTokens: Math.ceil(text.length / 4) *)
estimateTokens(length) == (length + 3) \div 4

RECURSIVE SumTokens(_)
SumTokens(items) ==
    IF Len(items) = 0 THEN 0
    ELSE items[1].tokens + SumTokens(Tail(items))

(* The branch "No truncation needed" *)
NoTruncation(items, totalTokens, targetTokens) ==
    [results |-> [i \in 1..Len(items) |->
                    [name |-> items[i].name,
                     allocatedTokens |-> Num(items[i].tokens),
                     allocatedChars |-> Num(items[i].length),
                     truncated |-> FALSE,
                     protected |-> FALSE]],
     stats |-> [totalTokensBefore |-> totalTokens,
                totalTokensAfter |-> totalTokens,
                targetTokens |-> targetTokens,
                itemsProtected |-> 0,
                itemsTruncated |-> 0,
                mode |-> "no-truncation"]]

(* proportion = tokens / groupTokens; tax = proportion * deficit;           *)
(* finalTokens = tokens - tax; finalChars = Math.floor(finalTokens * 4)     *)
Taxed(item, groupTokens, deficit) ==
    LET finalTokens ==
            IF groupTokens = 0 THEN NaN
            ELSE [n |-> item.tokens * groupTokens - item.tokens * deficit,
                  d |-> groupTokens]
        finalChars == Floor([n |-> 4 * finalTokens.n, d |-> finalTokens.d])
    IN [name |-> item.name,
        allocatedTokens |-> finalTokens,
        allocatedChars |-> finalChars,
        truncated |-> Lt(finalChars, Num(item.length)),
        protected |-> FALSE]

Protected(item) ==
    [name |-> item.name,
     allocatedTokens |-> Num(item.tokens),
     allocatedChars |-> Num(item.length),
     truncated |-> FALSE,
     protected |-> TRUE]

(* Mutant: the tax of an item is its share of the whole list, not of the    *)
(* items above the average tax                                              *)
applyProtectionMode_TaxOfAll(allItems, belowAverage, aboveAverage, deficit, targetTokens, totalTokens) ==
    [results |->
        [i \in 1..Len(aboveAverage) |->
            Taxed(aboveAverage[i], totalTokens, deficit)]
        \o [i \in 1..Len(belowAverage) |-> Protected(belowAverage[i])],
     stats |-> [totalTokensBefore |-> totalTokens,
                totalTokensAfter |-> targetTokens,
                targetTokens |-> targetTokens,
                itemsProtected |-> Len(belowAverage),
                itemsTruncated |-> Len(aboveAverage),
                mode |-> "protection"]]

applyProtectionMode(allItems, belowAverage, aboveAverage, deficit, targetTokens, totalTokens) ==
    LET totalAbove == SumTokens(aboveAverage) IN
    [results |->
        [i \in 1..Len(aboveAverage) |->
            Taxed(aboveAverage[i], totalAbove, deficit)]
        \o [i \in 1..Len(belowAverage) |-> Protected(belowAverage[i])],
     stats |-> [totalTokensBefore |-> totalTokens,
                totalTokensAfter |-> targetTokens,
                targetTokens |-> targetTokens,
                itemsProtected |-> Len(belowAverage),
                itemsTruncated |-> Len(aboveAverage),
                mode |-> "protection"]]

applyFallbackMode(items, totalTokens, deficit, targetTokens) ==
    [results |-> [i \in 1..Len(items) |->
                    Taxed(items[i], totalTokens, deficit)],
     stats |-> [totalTokensBefore |-> totalTokens,
                totalTokensAfter |-> targetTokens,
                targetTokens |-> targetTokens,
                itemsProtected |-> 0,
                itemsTruncated |-> Len(items),
                mode |-> "fallback"]]

(* item.tokens < averageTax, averageTax = deficit / items.length (called    *)
(* with deficit > 0; without items nothing is compared)                     *)
BelowAverageTax(item, deficit, count) == item.tokens * count < deficit

(* Mutant: no truncation only when the list is strictly under the target *)
NeedsNoTruncation_Strict(deficit) == deficit < 0

(* if (deficit <= 0) *)
NeedsNoTruncation(deficit) == deficit <= 0

(* Mutant: protection is given up one token too late *)
ProtectionInfeasible_Late(totalBelow, targetTokens) ==
    totalBelow > targetTokens + 1

(* if (totalBelow > targetTokens) *)
ProtectionInfeasible(totalBelow, targetTokens) == totalBelow > targetTokens

applyProgressiveTruncation(items, targetTokens) ==
    LET totalTokens == SumTokens(items)
        deficit == totalTokens - targetTokens
        belowAverage ==
            SelectSeq(items, LAMBDA it : BelowAverageTax(it, deficit, Len(items)))
        aboveAverage ==
            SelectSeq(items, LAMBDA it : ~BelowAverageTax(it, deficit, Len(items)))
        totalBelow == SumTokens(belowAverage)
    IN IF NeedsNoTruncation(deficit)
       THEN NoTruncation(items, totalTokens, targetTokens)
       ELSE IF ProtectionInfeasible(totalBelow, targetTokens)
       THEN applyFallbackMode(items, totalTokens, deficit, targetTokens)
       ELSE applyProtectionMode(items, belowAverage, aboveAverage, deficit,
                                targetTokens, totalTokens)

(* The item lists tried: tokens and content length agree with               *)
(* estimateTokens, the name of an item is its position.                     *)
ItemValues ==
    {[tokens |-> t, length |-> l] :
        t \in 0..MaxTokens, l \in 0..(4 * MaxTokens)}
ItemChoices ==
    {v \in ItemValues :
        /\ estimateTokens(v.length) = v.tokens
        /\ v.length \in {4 * v.tokens, 4 * v.tokens - 3, 0}}
ItemLists ==
    UNION {[1..k -> ItemChoices] : k \in 0..MaxItems}
Named(list) ==
    [i \in 1..Len(list) |->
        [name |-> i, tokens |-> list[i].tokens, length |-> list[i].length]]
Targets == (0 - MaxNegativeTarget)..MaxTarget

TruncationInit ==
    /\ MachineInit
    /\ call \in {[fn |-> "applyProgressiveTruncation", done |-> FALSE,
                   items |-> Named(list), targetTokens |-> t,
                   out |-> << >>] : list \in ItemLists, t \in Targets}

applyProgressiveTruncationCall ==
    /\ call.fn = "applyProgressiveTruncation"
    /\ ~call.done
    /\ call' = [call EXCEPT
                  !.done = TRUE,
                  !.out = applyProgressiveTruncation(call.items,
                                                     call.targetTokens)]
    /\ UNCHANGED machineVars

TruncationNext == applyProgressiveTruncationCall

TruncationSpec == TruncationInit /\ [][TruncationNext]_vars

(* ---------------- truncateContent ---------------- *)
(* A string is the sequence of its characters. *)
ellipsis ==
    << "\n", ".", ".", ".", " ", "[", "t", "r", "u", "n", "c", "a", "t", "e",
       "d", "]" >>

(* String.prototype.slice(0, end): a negative end counts from the end of    *)
(* the string, an end beyond the string is the end of the string            *)
slice(content, end) ==
    LET to == IF end < 0
              THEN (IF Len(content) + end < 0 THEN 0 ELSE Len(content) + end)
              ELSE (IF end > Len(content) THEN Len(content) ELSE end)
    IN SubSeq(content, 1, to)

truncateContent(content, maxChars) ==
    IF Len(content) <= maxChars
    THEN content
    ELSE LET truncateAt == maxChars - Len(ellipsis)
         IN slice(content, truncateAt) \o ellipsis

(* The contents tried: texts of every length up to MaxContentLength, each   *)
(* position holding a different character                                   *)
Alphabet ==
    << "A", "B", "C", "D", "E", "F", "G", "H", "I", "J", "K", "L", "M", "N",
       "O", "P", "Q", "R", "S", "T", "U", "V", "W", "X", "Y", "Z" >>
Contents ==
    {SubSeq(Alphabet, 1, k) :
        k \in {j \in 0..MaxContentLength : j <= Len(Alphabet)}}

TruncateContentInit ==
    /\ MachineInit
    /\ call \in {[fn |-> "truncateContent", done |-> FALSE,
                   content |-> c, maxChars |-> m, out |-> << >>] :
                   c \in Contents, m \in 0..MaxChars}

truncateContentCall ==
    /\ call.fn = "truncateContent"
    /\ ~call.done
    /\ call' = [call EXCEPT
                  !.done = TRUE,
                  !.out = truncateContent(call.content, call.maxChars)]
    /\ UNCHANGED machineVars

TruncateContentNext == truncateContentCall

TruncateContentSpec == TruncateContentInit /\ [][TruncateContentNext]_vars

(* ================= metadata-extractor.ts: normalizeType ================= *)
(* A string is its lower-case spelling together with the positions that     *)
(* hold a capital letter; the other values are the ones a lookup in an      *)
(* object literal can return.                                               *)
Str(chars, caps) == [kind |-> "string", chars |-> chars, caps |-> caps]
undefined == [kind |-> "undefined", chars |-> "undefined", caps |-> {}]
(* Object.prototype.constructor and Object.prototype itself *)
ObjectFunction == [kind |-> "function", chars |-> "Object", caps |-> {}]
ObjectPrototype == [kind |-> "object", chars |-> "Object.prototype", caps |-> {}]
(* the call threw "type.toLowerCase is not a function" *)
TypeError == [kind |-> "throw", chars |-> "TypeError", caps |-> {}]

toLowerCase(str) == Str(str.chars, {})

validTypes ==
    << Str("collection", {1}),
       Str("dataset", {1}),
       Str("event", {1}),
       Str("image", {1}),
       Str("interactiveresource", {1, 12}),
       Str("movingimage", {1, 7}),
       Str("physicalobject", {1, 9}),
       Str("service", {1}),
       Str("software", {1}),
       Str("sound", {1}),
       Str("stillimage", {1, 6}),
       Str("text", {1}) >>

(* the own properties of the object literal typeMap *)
typeMap ==
    { << "photo", Str("stillimage", {1, 6}) >>,
      << "photograph", Str("stillimage", {1, 6}) >>,
      << "picture", Str("stillimage", {1, 6}) >>,
      << "img", Str("image", {1}) >>,
      << "images", Str("image", {1}) >>,
      << "video", Str("movingimage", {1, 7}) >>,
      << "movie", Str("movingimage", {1, 7}) >>,
      << "film", Str("movingimage", {1, 7}) >>,
      << "audio", Str("sound", {1}) >>,
      << "recording", Str("sound", {1}) >>,
      << "document", Str("text", {1}) >>,
      << "book", Str("text", {1}) >>,
      << "article", Str("text", {1}) >>,
      << "manuscript", Str("text", {1}) >>,
      << "object", Str("physicalobject", {1, 9}) >>,
      << "artifact", Str("physicalobject", {1, 9}) >> }

(* typeMap[key]: an own property, else a property inherited from           *)
(* Object.prototype, else undefined                                         *)
typeMapLookup(key) ==
    IF \E e \in typeMap : Str(e[1], {}) = key
    THEN (CHOOSE e \in typeMap : Str(e[1], {}) = key)[2]
    ELSE IF key = Str("constructor", {}) THEN ObjectFunction
    ELSE IF key = Str("__proto__", {}) THEN ObjectPrototype
    ELSE undefined

(* if (mapped): undefined and the empty string are falsy *)
Truthy(value) == value.kind # "undefined" /\ value # Str("", {})

normalizeType(type) ==
    IF \E i \in 1..Len(validTypes) : validTypes[i] = type
    THEN type
    ELSE IF type.kind # "string"
    THEN TypeError
    ELSE LET lowerType == toLowerCase(type)
             matches == {i \in 1..Len(validTypes) :
                            toLowerCase(validTypes[i]) = lowerType}
             mapped == typeMapLookup(lowerType)
         IN IF matches # {}
            THEN validTypes[CHOOSE i \in matches : \A j \in matches : i <= j]
            ELSE IF Truthy(mapped) THEN mapped
            ELSE type

(* The strings tried: every DCMI value, every key of typeMap, the lower-case *)
(* property names of Object.prototype, an unknown word and the empty string, *)
(* each in lower case, capitalised, in capitals and in the DCMI spelling     *)
WordLengths ==
    { << "collection", 10 >>,
      << "dataset", 7 >>,
      << "event", 5 >>,
      << "image", 5 >>,
      << "interactiveresource", 19 >>,
      << "movingimage", 11 >>,
      << "physicalobject", 14 >>,
      << "service", 7 >>,
      << "software", 8 >>,
      << "sound", 5 >>,
      << "stillimage", 10 >>,
      << "text", 4 >>,
      << "photo", 5 >>,
      << "photograph", 10 >>,
      << "picture", 7 >>,
      << "img", 3 >>,
      << "images", 6 >>,
      << "video", 5 >>,
      << "movie", 5 >>,
      << "film", 4 >>,
      << "audio", 5 >>,
      << "recording", 9 >>,
      << "document", 8 >>,
      << "book", 4 >>,
      << "article", 7 >>,
      << "manuscript", 10 >>,
      << "object", 6 >>,
      << "artifact", 8 >>,
      << "constructor", 11 >>,
      << "__proto__", 9 >>,
      << "widget", 6 >>,
      << "", 0 >> }
Spellings(word, length) ==
    {Str(word, {}), Str(word, {i \in 1..length : i = 1}), Str(word, 1..length)}
TypeInputs ==
    UNION {Spellings(w[1], w[2]) : w \in WordLengths}
        \cup {validTypes[i] : i \in 1..Len(validTypes)}

NormalizeTypeInit ==
    /\ MachineInit
    /\ call \in {[fn |-> "normalizeType", done |-> FALSE, type |-> t,
                   results |-> << >>] : t \in TypeInputs}

(* processed.type = normalizeType(processed.type), applied to the input and *)
(* then once more to its own result                                         *)
normalizeTypeCall ==
    /\ call.fn = "normalizeType"
    /\ ~call.done
    /\ LET argument == IF call.results = << >> THEN call.type
                       ELSE call.results[Len(call.results)]
           result == normalizeType(argument)
       IN call' = [call EXCEPT
                     !.results = Append(@, result),
                     !.done = (Len(call.results) = 1 \/ result = TypeError)]
    /\ UNCHANGED machineVars

NormalizeTypeNext == normalizeTypeCall

NormalizeTypeSpec == NormalizeTypeInit /\ [][NormalizeTypeNext]_vars

(* ================= lib/context-fetcher.ts ================= *)
(* A file name is its stem (a tuple of parts) and its extension. *)
FileName(stem, ext) == [stem |-> stem, ext |-> ext]
PinaxJson == FileName(<< "pinax" >>, ".json")
TEXT_EXTENSIONS ==
    { ".txt", ".md", ".json", ".xml", ".html", ".htm", ".csv", ".tsv",
      ".yaml", ".yml", ".toml", ".ini", ".cfg", ".conf", ".log",
      ".rst", ".tex", ".rtf", ".asc", ".nfo" }
isRef(filename) == filename.ext = ".ref.json"
isTextFile(filename) ==
    /\ filename \notin {PinaxJson, FileName(<< "cheimarros" >>, ".json"),
                         FileName(<< "description" >>, ".md")}
    /\ ~isRef(filename)
    /\ filename.ext \in TEXT_EXTENSIONS

(* The components an entity may have, in the order of Object.entries, and   *)
(* the content stored under each                                            *)
ComponentOrder ==
    << PinaxJson, FileName(<< "notes" >>, ".txt"),
       FileName(<< "scan" >>, ".ref.json"), FileName(<< "image" >>, ".jpg") >>
ComponentNames == {ComponentOrder[i] : i \in 1..Len(ComponentOrder)}
Children == {"childA", "childB"}
ChildOrder == << "childA", "childB" >>
StoredContent(name) ==
    IF name = PinaxJson THEN SubSeq(Alphabet, 1, 8)
    ELSE IF isRef(name) THEN SubSeq(Alphabet, 1, 4)
    ELSE SubSeq(Alphabet, 1, 20)

(* targetTokens = Math.floor(modelMaxTokens * contentProportion), with the  *)
(* default proportion 0.5                                                   *)
contentProportion == Div(1, 2)
targetTokensOf(modelMaxTokens) ==
    Floor([n |-> modelMaxTokens * contentProportion.n,
           d |-> contentProportion.d]).n

applyTruncation(files, modelMaxTokens) ==
    LET items == [i \in 1..Len(files) |->
                    [name |-> files[i].name,
                     content |-> files[i].content,
                     length |-> Len(files[i].content),
                     tokens |-> estimateTokens(Len(files[i].content))]]
        contentOf(name) ==
            (CHOOSE i \in 1..Len(files) : files[i].name = name)
        results ==
            applyProgressiveTruncation(items,
                                       targetTokensOf(modelMaxTokens)).results
    IN [i \in 1..Len(results) |->
          [name |-> results[i].name,
           content |->
              IF results[i].truncated
              THEN truncateContent(files[contentOf(results[i].name)].content,
                                   results[i].allocatedChars.n)
              ELSE files[contentOf(results[i].name)].content]]

(* The outcome of a rejected fetchPinaxContext *)
Rejected == [threw |-> TRUE, files |-> << >>, existing_pinax |-> FALSE]

(* fetchPinaxContext after getEntity(pi) has resolved: steps 1 to 5. Every  *)
(* download sits in its own try/catch. downloads gives the outcome of       *)
(* downloadContent per component ("ok", "fail", or "badjson": downloaded    *)
(* but JSON.parse throws), childOutcome the outcome per child ("ok",        *)
(* "entityFail", "noPinax", "downloadFail"). The files are listed in the    *)
(* order of the steps; directory_name is not modelled.                      *)
assembleContext(entity, downloads, childOutcome, modelMaxTokens) ==
    LET has(name) == name \in entity.components
        fetched(name) ==
            [name |-> name, content |-> StoredContent(name)]
        previous ==
            IF has(PinaxJson) /\ downloads[PinaxJson] = "ok"
            THEN << [name |-> FileName(<< "[PREVIOUS] ", "pinax" >>, ".json"),
                     content |-> StoredContent(PinaxJson)] >>
            ELSE << >>
        wanted(keep(_)) ==
            SelectSeq(ComponentOrder,
                      LAMBDA name : has(name) /\ keep(name)
                                       /\ downloads[name] # "fail")
        textFiles == wanted(isTextFile)
        refs == wanted(isRef)
        children ==
            SelectSeq(ChildOrder,
                      LAMBDA c : c \in entity.children_pi
                                    /\ childOutcome[c] = "ok")
        files ==
            previous
            \o [i \in 1..Len(textFiles) |-> fetched(textFiles[i])]
            \o [i \in 1..Len(refs) |-> fetched(refs[i])]
            \o [i \in 1..Len(children) |->
                   [name |-> FileName(<< "child_pinax_", children[i] >>, ".json"),
                    content |-> StoredContent(PinaxJson)]]
    IN [threw |-> FALSE,
        files |-> applyTruncation(files, modelMaxTokens),
        existing_pinax |-> (previous # << >>)]

(* Mutant: the fetch of a child is not wrapped in try/catch *)
fetchPinaxContext_ChildUncaught(entity, downloads, childOutcome, modelMaxTokens) ==
    IF ~entity.ok
       \/ \E c \in entity.children_pi :
             childOutcome[c] \in {"entityFail", "downloadFail"}
    THEN Rejected
    ELSE assembleContext(entity, downloads, childOutcome, modelMaxTokens)

fetchPinaxContext(entity, downloads, childOutcome, modelMaxTokens) ==
    IF ~entity.ok
    THEN Rejected
    ELSE assembleContext(entity, downloads, childOutcome, modelMaxTokens)

(* The entities and fetch outcomes tried *)
Entities ==
    {[ok |-> ok, components |-> cs, children_pi |-> ch] :
        ok \in BOOLEAN, cs \in SUBSET ComponentNames, ch \in SUBSET Children}
DownloadOutcomes ==
    {d \in [ComponentNames -> {"ok", "fail", "badjson"}] :
        \A name \in ComponentNames :
            d[name] = "badjson" => name = PinaxJson}
ChildOutcomes ==
    [Children -> {"ok", "entityFail", "noPinax", "downloadFail"}]

FetchInit ==
    /\ MachineInit
    /\ call \in {[fn |-> "fetchPinaxContext", done |-> FALSE, entity |-> e,
                   downloads |-> d, childOutcome |-> co,
                   modelMaxTokens |-> mt, out |-> Rejected] :
                   e \in Entities, d \in DownloadOutcomes,
                   co \in ChildOutcomes,
                   mt \in {MODEL_MAX_TOKENS, SmallModelMaxTokens}}

fetchPinaxContextCall ==
    /\ call.fn = "fetchPinaxContext"
    /\ ~call.done
    /\ call' = [call EXCEPT
                  !.done = TRUE,
                  !.out = fetchPinaxContext(call.entity, call.downloads,
                                            call.childOutcome,
                                            call.modelMaxTokens)]
    /\ UNCHANGED machineVars

FetchNext == fetchPinaxContextCall

FetchSpec == FetchInit /\ [][FetchNext]_vars

(* ---------------- truncation of a fetched file list, twice ---------------- *)
(* buildContentSection of the prompt builder: the files as they are         *)
(* displayed in the prompt (name and displayContent, in the order of the    *)
(* results); the fixed text around them is not modelled.                    *)
buildContentSection(files, modelMaxTokens) ==
    LET truncationItems ==
            [i \in 1..Len(files) |->
                [name |-> files[i].name,
                 content |-> files[i].content,
                 length |-> Len(files[i].content),
                 tokens |-> estimateTokens(Len(files[i].content))]]
        indexOf(name) ==
            (CHOOSE i \in 1..Len(files) : files[i].name = name)
        results ==
            applyProgressiveTruncation(truncationItems,
                                       targetTokensOf(modelMaxTokens)).results
    IN [i \in 1..Len(results) |->
          [name |-> results[i].name,
           content |->
              IF results[i].truncated
              THEN truncateContent(files[indexOf(results[i].name)].content,
                                   results[i].allocatedChars.n)
              ELSE files[indexOf(results[i].name)].content]]

(* The raw file lists tried: up to MaxFiles files named by their position,  *)
(* empty, short, and long enough to be cut behind the marker                *)
FileLengths == {0, 3, 8, 20, 24}
RawFileLists ==
    UNION {[1..k -> FileLengths] : k \in 0..MaxFiles}
RawFiles(lengths) ==
    [i \in 1..Len(lengths) |->
        [name |-> i, content |-> SubSeq(Alphabet, 1, lengths[i])]]

ApplyTruncationInit ==
    /\ MachineInit
    /\ call \in {[fn |-> "applyTruncation", done |-> FALSE,
                   files |-> RawFiles(l), modelMaxTokens |-> m,
                   fetched |-> << >>, displayed |-> << >>] :
                   l \in RawFileLists, m \in 0..MaxModelMaxTokens}

(* step 5 of fetchPinaxContext *)
applyTruncationCall ==
    /\ call.fn = "applyTruncation"
    /\ ~call.done
    /\ call' = [call EXCEPT
                  !.fn = "buildContentSection",
                  !.fetched = applyTruncation(call.files, call.modelMaxTokens)]
    /\ UNCHANGED machineVars

(* extractMetadata builds the prompt from the files of the context *)
buildContentSectionCall ==
    /\ call.fn = "buildContentSection"
    /\ ~call.done
    /\ call' = [call EXCEPT
                  !.done = TRUE,
                  !.displayed = buildContentSection(call.fetched,
                                                    call.modelMaxTokens)]
    /\ UNCHANGED machineVars

ApplyTruncationNext == applyTruncationCall \/ buildContentSectionCall

ApplyTruncationSpec == ApplyTruncationInit /\ [][ApplyTruncationNext]_vars

(* ========== metadata-validator.ts: validatePinaxMetadata ========== *)
(* A JavaScript value of a metadata field: undefined (the field is absent), *)
(* null, a string (v holds its characters) or an array (v holds its         *)
(* elements, each a name of one character).                                 *)
JsUndefined == [t |-> "undefined", v |-> << >>]
JsNull == [t |-> "null", v |-> << >>]
JsString(chars) == [t |-> "string", v |-> chars]
JsArray(elements) == [t |-> "array", v |-> elements]

(* if (value): undefined, null and the empty string are falsy *)
IsTruthy(value) ==
    \/ value.t = "array"
    \/ value.t = "string" /\ Len(value.v) > 0

REQUIRED_FIELDS ==
    << "id", "title", "type", "creator", "institution", "created",
       "access_url" >>
DCMI_TYPES ==
    { << "C", "o", "l", "l", "e", "c", "t", "i", "o", "n" >>,
      << "D", "a", "t", "a", "s", "e", "t" >>,
      << "E", "v", "e", "n", "t" >>,
      << "I", "m", "a", "g", "e" >>,
      << "I", "n", "t", "e", "r", "a", "c", "t", "i", "v", "e", "R", "e", "s", "o", "u", "r", "c", "e" >>,
      << "M", "o", "v", "i", "n", "g", "I", "m", "a", "g", "e" >>,
      << "P", "h", "y", "s", "i", "c", "a", "l", "O", "b", "j", "e", "c", "t" >>,
      << "S", "e", "r", "v", "i", "c", "e" >>,
      << "S", "o", "f", "t", "w", "a", "r", "e" >>,
      << "S", "o", "u", "n", "d" >>,
      << "S", "t", "i", "l", "l", "I", "m", "a", "g", "e" >>,
      << "T", "e", "x", "t" >> }
COMMON_LANGUAGE_CODES ==
    { << "e", "n" >>,
      << "e", "n", "-", "U", "S" >>,
      << "e", "n", "-", "G", "B" >>,
      << "e", "s" >>,
      << "e", "s", "-", "M", "X" >>,
      << "f", "r" >>,
      << "f", "r", "-", "C", "A" >>,
      << "d", "e" >>,
      << "i", "t" >>,
      << "p", "t" >>,
      << "p", "t", "-", "B", "R" >>,
      << "z", "h" >>,
      << "z", "h", "-", "C", "N" >>,
      << "z", "h", "-", "T", "W" >>,
      << "j", "a" >>,
      << "k", "o" >>,
      << "a", "r" >>,
      << "r", "u" >>,
      << "h", "i" >>,
      << "n", "l" >>,
      << "p", "l" >>,
      << "t", "r" >>,
      << "s", "v" >> }

(* the characters of the patterns' classes; the capital letters are Alphabet *)
DigitChars == << "0", "1", "2", "3", "4", "5", "6", "7", "8", "9" >>
LowerChars ==
    << "a", "b", "c", "d", "e", "f", "g", "h", "i", "j", "k", "l", "m", "n",
       "o", "p", "q", "r", "s", "t", "u", "v", "w", "x", "y", "z" >>
Elements(seq) == {seq[i] : i \in 1..Len(seq)}
(* the characters from..to of chars all belong to the class *)
CharsIn(chars, from, to, class) == \A i \in from..to : chars[i] \in class

(* A validation message is [ok, text]: ok is the tick prefix, otherwise the *)
(* message carries the warning-sign prefix.                                 *)
validateId(id) ==
    LET Crockford ==
            Elements(DigitChars)
                \cup (Elements(Alphabet) \ {"I", "L", "O", "U"})
                \cup (Elements(LowerChars) \ {"i", "l", "o", "u"})
        Hex ==
            Elements(DigitChars)
                \cup {"a", "b", "c", "d", "e", "f", "A", "B", "C", "D", "E", "F"}
        ulidPattern == Len(id) = 26 /\ CharsIn(id, 1, 26, Crockford)
        uuidPattern ==
            /\ Len(id) = 36
            /\ \A i \in 1..36 :
                  IF i \in {9, 14, 19, 24} THEN id[i] = "-" ELSE id[i] \in Hex
    IN IF ulidPattern THEN [ok |-> TRUE, text |-> "Valid ULID format"]
       ELSE IF uuidPattern THEN [ok |-> TRUE, text |-> "Valid UUID format"]
       ELSE [ok |-> FALSE, text |-> "Not a valid ULID or UUID format"]

validateDCMIType(type) ==
    IF type \in DCMI_TYPES THEN [ok |-> TRUE, text |-> "Valid DCMI Type"]
    ELSE [ok |-> FALSE, text |-> "Should be one of: the DCMI types"]

(* parseInt(text, 10) and Number(text) of a text made of digits *)
RECURSIVE Number(_)
Number(digits) ==
    IF Len(digits) = 0 THEN 0
    ELSE 10 * Number(SubSeq(digits, 1, Len(digits) - 1))
            + (CHOOSE n \in 0..9 : DigitChars[n + 1] = digits[Len(digits)])

(* !isNaN(new Date(date).getTime()) for a text YYYY-MM-DD whose month is in *)
(* 1..12 and whose day is in 1..31: a day the month has is a date; a day    *)
(* past the end of the month is either rejected or rolled over into the     *)
(* next month, as the engine decides (rollsOver)                            *)
DateParses(year, month, day, rollsOver) ==
    LET LeapYear == year % 4 = 0 /\ (year % 100 # 0 \/ year % 400 = 0)
        DaysInMonth ==
            IF month = 2 THEN (IF LeapYear THEN 29 ELSE 28)
            ELSE IF month \in {4, 6, 9, 11} THEN 30 ELSE 31
    IN day <= DaysInMonth \/ rollsOver

validateDate(date, rollsOver) ==
    LET yearPattern ==
            Len(date) = 4 /\ CharsIn(date, 1, 4, Elements(DigitChars))
        fullDatePattern ==
            /\ Len(date) = 10
            /\ \A i \in 1..10 :
                  IF i \in {5, 8} THEN date[i] = "-"
                  ELSE date[i] \in Elements(DigitChars)
        year == Number(SubSeq(date, 1, 4))
        month == Number(SubSeq(date, 6, 7))
        day == Number(SubSeq(date, 9, 10))
    IN IF yearPattern /\ Number(date) >= 1000 /\ Number(date) <= 9999
       THEN [ok |-> TRUE, text |-> "Valid year format (YYYY)"]
       ELSE IF /\ fullDatePattern
               /\ year >= 1000 /\ year <= 9999
               /\ month >= 1 /\ month <= 12
               /\ day >= 1 /\ day <= 31
               /\ DateParses(year, month, day, rollsOver)
       THEN [ok |-> TRUE, text |-> "Valid date format (YYYY-MM-DD)"]
       ELSE [ok |-> FALSE,
             text |-> "Invalid date format (should be YYYY or YYYY-MM-DD)"]

validateLanguageCode(lang) ==
    LET n == Len(lang)
        (* /^[a-z]{2,3}(-[A-Z]{2})?$/ *)
        bcp47Pattern ==
            \/ n \in {2, 3} /\ CharsIn(lang, 1, n, Elements(LowerChars))
            \/ /\ n \in {5, 6}
               /\ CharsIn(lang, 1, n - 3, Elements(LowerChars))
               /\ lang[n - 2] = "-"
               /\ CharsIn(lang, n - 1, n, Elements(Alphabet))
    IN IF ~bcp47Pattern
       THEN [ok |-> FALSE, text |-> "Invalid BCP-47 format"]
       ELSE IF lang \in COMMON_LANGUAGE_CODES
       THEN [ok |-> TRUE, text |-> "Valid BCP-47 language code"]
       ELSE [ok |-> TRUE, text |-> "Valid BCP-47 format (uncommon code)"]

(* new URL(url) without a base, for texts made of letters, digits and the   *)
(* characters : / . -  The text needs a scheme (a letter, then letters,     *)
(* digits, +, - or . up to the first colon), and a scheme of the web needs  *)
(* a host after the colon and the slashes that follow it; anything else     *)
(* throws. protocol is the scheme in lower case, with its colon.            *)
URL(url) ==
    LET Letters == Elements(LowerChars) \cup Elements(Alphabet)
        Colons == {i \in 1..Len(url) : url[i] = ":"}
        colon == CHOOSE i \in Colons : \A j \in Colons : i <= j
        hasScheme ==
            /\ Colons # {}
            /\ colon > 1
            /\ url[1] \in Letters
            /\ CharsIn(url, 1, colon - 1,
                       Letters \cup Elements(DigitChars) \cup {"+", "-", "."})
        LowerOf(c) ==
            IF c \in Elements(Alphabet)
            THEN LowerChars[CHOOSE i \in 1..Len(Alphabet) : Alphabet[i] = c]
            ELSE c
        scheme == [i \in 1..(colon - 1) |-> LowerOf(url[i])]
        hostSchemes ==
            { << "h", "t", "t", "p" >>, << "h", "t", "t", "p", "s" >>,
              << "f", "t", "p" >>, << "w", "s" >>, << "w", "s", "s" >> }
        hasHost ==
            \E i \in (colon + 1)..Len(url) :
                /\ url[i] # "/"
                /\ \A j \in (colon + 1)..(i - 1) : url[j] = "/"
    IN IF ~hasScheme THEN [threw |-> TRUE, protocol |-> << >>]
       ELSE IF scheme \in hostSchemes /\ ~hasHost
       THEN [threw |-> TRUE, protocol |-> << >>]
       ELSE [threw |-> FALSE, protocol |-> scheme \o << ":" >>]

validateUrl(url) ==
    LET urlObj == URL(url)
    IN IF urlObj.threw THEN [ok |-> FALSE, text |-> "Invalid URL format"]
       ELSE IF urlObj.protocol \in { << "h", "t", "t", "p", ":" >>,
                                     << "h", "t", "t", "p", "s", ":" >> }
       THEN [ok |-> TRUE, text |-> "Valid URL"]
       ELSE [ok |-> FALSE, text |-> "URL should use http:// or https://"]

validatePinaxMetadata(metadata, rollsOver) ==
    LET Missing(field) ==
            LET value == metadata[field]
            IN \/ value.t \in {"undefined", "null"}
               \/ value.t = "string" /\ Len(value.v) = 0
               \/ field = "creator" /\ value.t = "array" /\ Len(value.v) = 0
        missing_required == SelectSeq(REQUIRED_FIELDS, Missing)
        validated ==
            {f \in {"id", "type", "created", "language", "access_url"} :
                IsTruthy(metadata[f])}
        field_validations ==
            [field \in validated |->
                CASE field = "id" -> validateId(metadata.id.v)
                  [] field = "type" -> validateDCMIType(metadata.type.v)
                  [] field = "created" ->
                         validateDate(metadata.created.v, rollsOver)
                  [] field = "language" ->
                         validateLanguageCode(metadata.language.v)
                  [] field = "access_url" ->
                         validateUrl(metadata.access_url.v)]
        warnings ==
            (IF ~IsTruthy(metadata.description)
             THEN << "Consider adding a description for better discoverability" >>
             ELSE << >>)
            \o (IF ~IsTruthy(metadata.subjects) \/ Len(metadata.subjects.v) = 0
                THEN << "Consider adding subjects/keywords for better searchability" >>
                ELSE << >>)
            \o (IF ~IsTruthy(metadata.language)
                THEN << "Consider specifying the language" >>
                ELSE << >>)
            \o (IF ~IsTruthy(metadata.source)
                THEN << "Consider specifying the source system" >>
                ELSE << >>)
        valid == Len(missing_required) = 0
    IN [valid |-> valid,
        missing_required |-> missing_required,
        warnings |-> warnings,
        field_validations |-> field_validations]

(* The records tried: each field absent or empty, well formed, or failing   *)
(* its format rule; the optional fields all absent, with an empty list of   *)
(* subjects, or all given                                                   *)
MetadataInputs ==
    LET
        Ids ==
            { JsUndefined,
              JsString(<< "0", "1", "H", "A", "B", "C", "D", "E", "F", "0", "1", "2", "3", "4", "5", "6", "7", "8", "9", "J", "K", "M", "N", "P", "Q", "R" >>),
              JsString(<< "1", "2", "3", "e", "4", "5", "6", "7", "-", "e", "8", "9", "b", "-", "1", "2", "d", "3", "-", "a", "4", "5", "6", "-", "4", "2", "6", "6", "1", "4", "1", "7", "4", "0", "0", "0" >>),
              JsString(<< "a", "b", "c" >>) }
        Types ==
            { JsUndefined,
              JsString(<< "S", "t", "i", "l", "l", "I", "m", "a", "g", "e" >>),
              JsString(<< "w", "i", "d", "g", "e", "t" >>) }
        Dates ==
            { JsUndefined,
              JsString(<< "1", "9", "2", "7" >>),
              JsString(<< "0", "9", "9", "9" >>),
              JsString(<< "1", "9", "2", "7", "-", "0", "6", "-", "1", "5" >>),
              JsString(<< "1", "9", "2", "7", "-", "0", "2", "-", "3", "0" >>),
              JsString(<< "1", "9", "2", "7", "-", "1", "3", "-", "0", "1" >>) }
        Languages ==
            { JsUndefined,
              JsString(<< "e", "n" >>),
              JsString(<< "e", "n", "-", "U", "S" >>),
              JsString(<< "E", "N" >>),
              JsString(<< "t", "l", "h" >>) }
        Urls ==
            { JsUndefined,
              JsString(<< "h", "t", "t", "p", "s", ":", "/", "/", "x", "/", "y" >>),
              JsString(<< "f", "t", "p", ":", "/", "/", "x", "/", "y" >>),
              JsString(<< "x", "/", "y" >>),
              JsString(<< "h", "t", "t", "p", "s", ":", "/", "/" >>) }
        Titles ==
            { JsString(<< >>),
              JsString(<< "X" >>) }
        Institutions ==
            { JsNull,
              JsString(<< "I" >>) }
        Creators ==
            { JsUndefined,
              JsString(<< "A" >>),
              JsArray(<< >>),
              JsArray(<< "A" >>) }
        Optionals ==
            { [description |-> JsUndefined, subjects |-> JsUndefined,
               source |-> JsUndefined],
              [description |-> JsString(<< "D" >>),
               subjects |-> JsArray(<< >>), source |-> JsUndefined],
              [description |-> JsString(<< "D" >>),
               subjects |-> JsArray(<< "s" >>),
               source |-> JsString(<< "P" >>)] }
    IN { [id |-> id, title |-> title, type |-> type, creator |-> creator,
          institution |-> institution, created |-> created,
          access_url |-> access_url, language |-> language,
          description |-> o.description, subjects |-> o.subjects,
          source |-> o.source] :
           id \in Ids, title \in Titles, type \in Types,
           creator \in Creators, institution \in Institutions,
           created \in Dates, access_url \in Urls, language \in Languages,
           o \in Optionals }

ValidatorInit ==
    /\ MachineInit
    /\ call \in {[fn |-> "validatePinaxMetadata", done |-> FALSE,
                   metadata |-> m,
                   out |-> [valid |-> FALSE, missing_required |-> << >>,
                            warnings |-> << >>,
                            field_validations |-> << >>]] :
                   m \in MetadataInputs}

(* const validation = validatePinaxMetadata(metadata) *)
validatePinaxMetadataCall ==
    /\ call.fn = "validatePinaxMetadata"
    /\ ~call.done
    /\ \E rollsOver \in BOOLEAN :
          call' = [call EXCEPT
                     !.done = TRUE,
                     !.out = validatePinaxMetadata(call.metadata, rollsOver)]
    /\ UNCHANGED machineVars

ValidatorNext == validatePinaxMetadataCall

ValidatorSpec == ValidatorInit /\ [][ValidatorNext]_vars

(* ======================= claims ======================= *)
Terminal(row) == row.status \in {"done", "error"}
Published(row) ==
    row.pinax_cid # NULL /\ row.new_tip # NULL /\ row.new_version # NULL
RetryCount == batch_state[1].callback_retry_count

(* C1: in every callback payload sent, summary.succeeded + summary.failed  *)
(* equals summary.total, whichever path led the chunk to CALLBACK.         *)
C1_SummaryAddsUp ==
    lastPayload # << >> =>
        lastPayload[1].succeeded + lastPayload[1].failed = lastPayload[1].total

(* C2: every appendVersion call of publishPI carries the tip read by the   *)
(* getEntity of the same attempt; every version in an entity's chain was    *)
(* appended on the tip current at that time, and a chain only grows at its  *)
(* end, whatever other writers do.                                          *)
C2_SameAttemptTip ==
    \A p \in PIs :
        tasks[p].st = "append" =>
            /\ tasks[p].tipAt = tasks[p].attempt
            /\ ExpectTip(tasks[p]) = tasks[p].tip
C2_LinearChain ==
    \A p \in PIs : \A i \in 1..Len(store[p]) : store[p][i].expect = i
C2_ChainOnlyGrows ==
    \A p \in PIs :
        /\ Len(store'[p]) >= Len(store[p])
        /\ SubSeq(store'[p], 1, Len(store[p])) = store[p]
C2_CasKeepsHistoryLinear ==
    /\ [](C2_SameAttemptTip /\ C2_LinearChain)
    /\ [][C2_ChainOnlyGrows]_vars
(* The worker's append succeeded on a later attempt, after another writer   *)
(* had appended to the same entity.                                         *)
C2_Witness ==
    \E p \in PIs :
        /\ tasks[p].st = "fulfilled"
        /\ tasks[p].attempt >= 2
        /\ Len(store[p]) = 2
        /\ store[p][1].by = "other"
        /\ store[p][2].by = "worker"

(* C3: the phase changes from PROCESSING to PUBLISHING only in a state      *)
(* where no PI row is pending or processing.                                *)
C3_PublishingOnlyWhenSettled ==
    [][ (HasChunk /\ Phase = "PROCESSING"
         /\ Len(batch_state') > 0 /\ batch_state'[1].phase = "PUBLISHING")
        => \A p \in Rows : pi_state[p].status \notin {"pending", "processing"}
      ]_vars

(* C4 as stated: the phase changes to CALLBACK only in a state where every  *)
(* done PI row has pinax_cid, new_tip and new_version set.                  *)
C4_CallbackOnlyWhenPublished ==
    [][ (HasChunk /\ Phase # "CALLBACK"
         /\ Len(batch_state') > 0 /\ batch_state'[1].phase = "CALLBACK")
        => \A p \in Rows : pi_state[p].status = "done" => Published(pi_state[p])
      ]_vars
(* C4 amended: the exit of publishPhase (a step that raises no exception)   *)
(* changes the phase to CALLBACK only in a state where every done PI row    *)
(* has pinax_cid, new_tip and new_version set.                              *)
C4_PublishExitOnlyWhenPublished ==
    [][ (HasChunk /\ Phase # "CALLBACK" /\ faults' = faults
         /\ Len(batch_state') > 0 /\ batch_state'[1].phase = "CALLBACK")
        => /\ Phase = "PUBLISHING"
           /\ \A p \in Rows :
                pi_state[p].status = "done" => Published(pi_state[p])
      ]_vars
C4_Witness ==
    /\ HasChunk
    /\ Phase = "CALLBACK"
    /\ batch_state[1].global_error = NULL
    /\ pc = "idle"
    /\ lastPayload = << >>
    /\ \E p \in Rows : pi_state[p].status = "done" /\ Published(pi_state[p])

(* C5: after an interruption inside a pass, re-running the state machine    *)
(* brings every PI row to done or error before the callback is assembled.   *)
(* (Without an uncaught exception CALLBACK is only entered by publishPhase.) *)
C5_TerminalBeforeCallback ==
    (pc = "callback_wait" /\ batch_state[1].global_error = NULL)
        => \A p \in Rows : Terminal(pi_state[p])

(* C6: every admitted chunk eventually has its callback attempted, reaches  *)
(* DONE and is cleaned up, whatever fails on the way.                       *)
C6_EventuallyCleanedUp ==
    HasChunk ~> (~HasChunk /\ posts > 0 /\ pc = "idle")
(* A chunk with a PI in terminal error was cleaned up after its callback.   *)
C6_Witness ==
    /\ ~HasChunk
    /\ lastPayload # << >>
    /\ lastPayload[1].failed > 0
    /\ lastPayload[1].succeeded > 0

(* C7: retry_count never exceeds MAX_RETRIES_PER_PI, and a PI whose         *)
(* retry_count reached the bound is in error.                               *)
C7_RetryBound ==
    \A p \in Rows :
        /\ pi_state[p].retry_count <= MAX_RETRIES_PER_PI
        /\ pi_state[p].retry_count >= MAX_RETRIES_PER_PI
             => pi_state[p].status = "error"
C7_Witness ==
    \E p \in Rows :
        /\ pi_state[p].retry_count = 3
        /\ pi_state[p].status = "error"
        /\ pi_state[p].error = "extract"

(* C8: publishing a PI makes at most 3 refresh-and-append attempts; a task  *)
(* that succeeded (also after failed attempts) leaves the row done with the *)
(* task's cid, tip and version; a row goes from done to error only when     *)
(* the upload failed or the third attempt failed.                           *)
C8_AttemptsBounded ==
    \A p \in PIs :
        /\ tasks[p].attempt <= 3
        /\ tasks[p].st = "rejected" /\ pc = "publish_wait"
             => \/ tasks[p].reason = "upload" /\ tasks[p].attempt = 0
                \/ tasks[p].reason = "exhausted" /\ tasks[p].attempt = 3
C8_CollectStep ==
    \A p \in Rows \cap DOMAIN pi_state' :
        /\ (pi_state[p].status = "done" /\ pi_state'[p].status = "error")
             => /\ pc = "publish_wait"
                /\ tasks[p].st = "rejected"
                /\ pi_state'[p].error = "publish"
                /\ pi_state'[p].new_tip = NULL
        /\ (pc = "publish_wait" /\ pc' = "idle" /\ alarm' = scheduleNextAlarm
            /\ tasks[p].st = "fulfilled")
             => /\ pi_state'[p].status = "done"
                /\ pi_state'[p].pinax_cid = tasks[p].cid
                /\ pi_state'[p].new_tip = tasks[p].newTip
                /\ pi_state'[p].new_version = tasks[p].newVer
                /\ pi_state'[p].new_tip = CurrentTip(store[p])
                     \/ \E i \in 1..Len(store[p]) :
                          /\ store[p][i].by = "worker"
                          /\ pi_state'[p].new_tip = i + 1
C8_PublishRetries ==
    /\ []C8_AttemptsBounded
    /\ [][C8_CollectStep]_vars
(* A tip mismatch on the first attempt, success on a later one.             *)
C8_Witness ==
    \E p \in PIs :
        /\ pc = "publish_wait"
        /\ tasks[p].st = "fulfilled"
        /\ tasks[p].attempt >= 2
        /\ tasks[p].newTip = 3
        /\ store[p][1].by = "other"

(* C9 as stated, last part: at most MAX_CALLBACK_RETRIES callback POSTs     *)
(* are made for one chunk.                                                  *)
C9_AtMostMaxPosts == posts <= MAX_CALLBACK_RETRIES
(* C9 amended: a failed delivery increments callback_retry_count; below     *)
(* MAX_CALLBACK_RETRIES the chunk stays in CALLBACK with the timer armed,   *)
(* a 2xx moves it to DONE with completed_at set, reaching the bound moves   *)
(* it to DONE; the POSTs of one chunk number at most MAX_CALLBACK_RETRIES   *)
(* plus one per interruption or uncaught exception.                         *)
C9_ResponseStep ==
    (pc = "callback_wait" /\ pc' = "idle" /\ faults' = faults)
        => LET b == batch_state[1]
               a == batch_state'[1]
           IN \/ /\ a.callback_retry_count = b.callback_retry_count
                 /\ a.phase = "DONE"
                 /\ a.completed_at
                 /\ alarm'.armed
              \/ /\ a.callback_retry_count = b.callback_retry_count + 1
                 /\ a.callback_retry_count < 3
                 /\ a.phase = "CALLBACK"
                 /\ a.completed_at = b.completed_at
                 /\ alarm'.armed
              \/ /\ a.callback_retry_count = b.callback_retry_count + 1
                 /\ a.callback_retry_count >= 3
                 /\ a.phase = "DONE"
                 /\ a.completed_at
                 /\ alarm'.armed
C9_CountStep ==
    (HasChunk /\ Len(batch_state') > 0
     /\ batch_state'[1].callback_retry_count # RetryCount)
        => \/ pc = "callback_wait" /\ pc' = "idle"
           \/ batch_state'[1].callback_retry_count = 0
C9_CallbackRetries ==
    /\ [](posts <= MAX_CALLBACK_RETRIES + faults)
    /\ [][C9_ResponseStep /\ C9_CountStep]_vars
(* Two failed deliveries, then a 2xx: DONE with callback_retry_count = 2.   *)
C9_Witness ==
    /\ HasChunk
    /\ Phase = "DONE"
    /\ RetryCount = 2
    /\ batch_state[1].completed_at
    /\ posts = 3
    /\ faults = 0

(* C10: after a failed callback that will be retried the timer is armed at  *)
(* 1000 * 2^k ms, k the incremented callback_retry_count: 2000 ms after     *)
(* the first failure, 4000 ms after the second.                             *)
C10_BackoffStep ==
    (pc = "callback_wait" /\ pc' = "idle"
     /\ batch_state'[1].phase = "CALLBACK"
     /\ batch_state'[1].callback_retry_count = RetryCount + 1)
        => /\ alarm'.armed
           /\ batch_state'[1].callback_retry_count = 1 => alarm'.delay = 2000
           /\ batch_state'[1].callback_retry_count = 2 => alarm'.delay = 4000
           /\ batch_state'[1].callback_retry_count \in {1, 2}
C10_CallbackBackoff == [][C10_BackoffStep]_vars
C10_Witness ==
    /\ HasChunk
    /\ Phase = "CALLBACK"
    /\ RetryCount = 2
    /\ alarm = [armed |-> TRUE, delay |-> 4000]

(* A step in which a pass raised an exception that alarm() caught: a fault  *)
(* is counted and the step is not an interruption.                          *)
Thrown == faults' = faults + 1 /\ ~Crash
GlobalError == batch_state[1].global_error
Carried(message) == lastPayload # << >> /\ lastPayload[1].error = message

(* C11: when a pass raises an exception that is not a per-PI outcome, the   *)
(* alarm handler stores its message in global_error, sets the phase to      *)
(* CALLBACK and re-arms the timer; every callback payload carries the       *)
(* global_error stored when it is built, and a stored message stays until   *)
(* a payload carried it (or the message of a later exception replaces it).  *)
C11_CatchStep ==
    Thrown => /\ Len(batch_state') = 1
              /\ batch_state'[1].phase = "CALLBACK"
              /\ batch_state'[1].global_error = ErrorMessage(faults')
              /\ batch_state'[1].global_error # NULL
              /\ alarm' = SetAlarm(ALARM_INTERVAL_MS)
              /\ pc' = "idle"
C11_SendStep ==
    posts' = posts + 1 => /\ lastPayload' # << >>
                          /\ lastPayload'[1].error = GlobalError
C11_MessageKept ==
    (HasChunk /\ GlobalError # NULL
     /\ (Len(batch_state') = 0 \/ batch_state'[1].global_error # GlobalError))
        => Carried(GlobalError) \/ Thrown
C12_PayloadStatus ==
    lastPayload # << >> =>
        LET pl == lastPayload[1] IN
        /\ pl.status \in {"success", "error", "partial"}
        /\ pl.status = "success" <=> pl.failed = 0
        /\ pl.status = "error" <=> (pl.failed >= 1 /\ pl.succeeded = 0)
        /\ pl.status = "partial" <=> (pl.failed >= 1 /\ pl.succeeded >= 1)
(* A payload with one succeeded and one failed PI was sent.                 *)
C12_Witness ==
    /\ lastPayload # << >>
    /\ lastPayload[1].status = "partial"
    /\ lastPayload[1].succeeded = 1
    /\ lastPayload[1].failed = 1

(* A step that handles a /process request returns a response. *)
RequestStep == response'.status # "none"
NoRows ==
    /\ batch_state = << >>
    /\ pi_list = {}
    /\ DOMAIN pi_state = {}
    /\ context_meta = {}
    /\ context_files = {}

(* C13: a /process request that arrives while a chunk row exists in a phase *)
(* other than DONE or ERROR is answered already_processing with the current *)
(* phase and leaves the chunk row, the PI rows, the cached context rows and *)
(* the armed timer (and the running pass) unchanged.                        *)
C13_RejectStep ==
    (RequestStep /\ HasChunk /\ Phase \notin {"DONE", "ERROR"})
        => /\ response' = AlreadyProcessing(Phase)
           /\ UNCHANGED << batch_state, pi_list, pi_state, context_meta,
                           context_files, alarm, pc, tasks >>
C13_OnlyWhenBusy ==
    response'.status = "already_processing"
        => HasChunk /\ Phase \notin {"DONE", "ERROR"}
C13_AlreadyProcessing == [][C13_RejectStep /\ C13_OnlyWhenBusy]_vars
(* A request was rejected while the fan-out of a PROCESSING pass was        *)
(* running with a context row cached and the timer consumed.                *)
C13_Witness ==
    /\ response = AlreadyProcessing("PROCESSING")
    /\ pc = "process_wait"
    /\ context_meta # {}
    /\ \E p \in Rows : pi_state[p].status = "processing"

(* C14: a /process request with pairwise distinct PIs that arrives when no  *)
(* chunk row exists, or when the chunk row is in DONE or ERROR, leaves      *)
(* exactly: one chunk row in PROCESSING with callback_retry_count 0 and no  *)
(* global_error, one pending PI row with retry_count 0 per input PI, no     *)
(* PI-state or cached-context row of an earlier run, and the timer armed    *)
(* 100 ms ahead.                                                            *)
C14_AdmitStep ==
    \A pis \in ChunkInputs :
        (handleProcess(pis) /\ Admissible(batch_state))
            => /\ response' = Accepted(pis)
               /\ Len(batch_state') = 1
               /\ batch_state'[1].phase = "PROCESSING"
               /\ batch_state'[1].callback_retry_count = 0
               /\ batch_state'[1].global_error = NULL
               /\ batch_state'[1].completed_at = FALSE
               /\ DOMAIN pi_state' = pis
               /\ pi_list' = pis
               /\ \A p \in pis :
                    /\ pi_state'[p].status = "pending"
                    /\ pi_state'[p].retry_count = 0
                    /\ pi_state'[p] = FreshRow
               /\ context_meta' = {}
               /\ context_files' = {}
               /\ alarm' = [armed |-> TRUE, delay |-> 100]
C14_Accepted ==
    (RequestStep /\ (~HasChunk \/ Phase \in {"DONE", "ERROR"}))
        => response'.status = "accepted"
C15_CleanupStep ==
    (AlarmFires /\ Phase \in {"DONE", "ERROR"} /\ ~RequestStep /\ ~Thrown)
        => (NoRows' /\ ~alarm'.armed)
C15_OnlyCleanupDeletes ==
    (HasChunk /\ Len(batch_state') = 0)
        => (AlarmFires /\ Phase \in {"DONE", "ERROR"})
C16_ErrorHasNoTip ==
    \A p \in Rows : pi_state[p].status = "error" => pi_state[p].new_tip = NULL
(* One PI failed publishing in a chunk whose other PI was published.        *)
C16_Witness ==
    /\ \E p \in Rows : /\ pi_state[p].status = "error"
                        /\ pi_state[p].error = "publish"
                        /\ pi_state[p].new_tip = NULL
    /\ \E q \in Rows : pi_state[q].status = "done" /\ Published(pi_state[q])

(* C17: a PI row has pinax_cid set only if an upload of that PI's record    *)
(* succeeded in the current chunk run, and new_tip and new_version set only *)
(* if an appendVersion call for that PI succeeded in the current chunk run. *)
WorkerVersion(p, tip) ==
    /\ tip - 1 \in 1..Len(store[p])
    /\ store[p][tip - 1].by = "worker"
C17_RowInv ==
    \A p \in Rows :
        /\ pi_state[p].new_tip # NULL <=> pi_state[p].new_version # NULL
        /\ pi_state[p].new_tip # NULL =>
             /\ pi_state[p].pinax_cid # NULL
             /\ WorkerVersion(p, pi_state[p].new_tip)
C17_TaskInv ==
    \A p \in PIs :
        /\ tasks[p].cid # NULL => pc = "publish_wait"
        /\ tasks[p].newTip # NULL =>
             /\ tasks[p].st = "fulfilled"
             /\ tasks[p].cid # NULL
             /\ tasks[p].newVer # NULL
             /\ WorkerVersion(p, tasks[p].newTip)
C17_TaskStep ==
    \A p \in PIs :
        /\ (tasks[p].cid = NULL /\ tasks'[p].cid # NULL)
             => tasks[p].st = "upload"
        /\ (tasks[p].newTip = NULL /\ tasks'[p].newTip # NULL)
             => /\ tasks[p].st = "append"
                /\ TipMatches(store[p], tasks[p].tip)
                /\ Len(store'[p]) = Len(store[p]) + 1
                /\ store'[p][Len(store'[p])].by = "worker"
                /\ tasks'[p].newTip = CurrentTip(store'[p])
C17_RowStep ==
    \A p \in DOMAIN pi_state' :
        LET before == IF p \in Rows THEN pi_state[p] ELSE FreshRow
            after == pi_state'[p]
        IN /\ (after.pinax_cid # NULL /\ after.pinax_cid # before.pinax_cid)
                => /\ pc = "publish_wait"
                   /\ tasks[p].cid # NULL
                   /\ after.pinax_cid = tasks[p].cid
           /\ (after.new_tip # NULL /\ after.new_tip # before.new_tip)
                => /\ pc = "publish_wait"
                   /\ tasks[p].newTip # NULL
                   /\ after.new_tip = tasks[p].newTip
                   /\ after.new_version = tasks[p].newVer
           /\ (RequestStep /\ response'.status = "accepted")
                => /\ after.pinax_cid = NULL
                   /\ after.new_tip = NULL
                   /\ after.new_version = NULL
C18_DoneHasRecordErrorHasMessage ==
    \A p \in Rows :
        /\ pi_state[p].status = "done" => pi_state[p].pinax_json # NULL
        /\ pi_state[p].status = "error" => pi_state[p].error # NoError
(* One PI is done and the other ran out of extraction retries.              *)
C18_Witness ==
    /\ \E p \in Rows : /\ pi_state[p].status = "done"
                        /\ pi_state[p].pinax_json # NULL
    /\ \E q \in Rows : /\ pi_state[q].status = "error"
                        /\ pi_state[q].error = "extract"

(* C19: between launching the per-PI tasks of a PROCESSING or PUBLISHING    *)
(* pass and collecting their outcomes, no durable table is modified.        *)
C19_NoWriteDuringFanOut ==
    [][ (pc \in {"process_wait", "publish_wait"} /\ pc' = pc)
        => UNCHANGED << batch_state, pi_list, pi_state, context_meta,
                        context_files >> ]_vars

(* C20: in every state between passes no cached context row (context_files  *)
(* or context_meta) exists for a PI whose status is done or error.          *)
C20_NoContextForTerminal ==
    pc = "idle" =>
        \A p \in Rows :
            Terminal(pi_state[p]) => p \notin context_meta \cup context_files
(* Between passes one PI is done, without context rows, while the rows      *)
(* cached for the other PI by an interrupted pass are still there.          *)
C20_Witness ==
    /\ pc = "idle"
    /\ \E p \in Rows : /\ pi_state[p].status = "done"
                        /\ p \notin context_meta \cup context_files
    /\ \E q \in Rows : /\ pi_state[q].status = "processing"
                        /\ q \in context_meta \cap context_files

(* ---------------- progressive truncation: C21..C26 ---------------- *)
(* applyProgressiveTruncation has returned *)
TruncationDone == call.fn = "applyProgressiveTruncation" /\ call.done
Results == {call.out.results[i] : i \in 1..Len(call.out.results)}
ItemOf(r) == call.items[r.name]
TotalBefore == SumTokens(call.items)
RECURSIVE SumAllocated(_)
SumAllocated(results) ==
    IF Len(results) = 0 THEN Num(0)
    ELSE Plus(results[1].allocatedTokens, SumAllocated(Tail(results)))
(* the same number, an undefined quotient (0/0) counting as equal to itself *)
SameNumber(x, y) == (IsNaN(x) /\ IsNaN(y)) \/ Eq(x, y)
(* the items that the average tax (sum - target) / N spares *)
Below ==
    {i \in 1..Len(call.items) :
        call.items[i].tokens * Len(call.items)
            < TotalBefore - call.targetTokens}
RECURSIVE SumOver(_)
SumOver(S) ==
    IF S = {} THEN 0
    ELSE LET i == CHOOSE j \in S : TRUE
         IN call.items[i].tokens + SumOver(S \ {i})

(* C21: whenever truncation occurs (sum of tokens > target) the allocated   *)
(* tokens of all results sum to within less than 1 of the target; when no   *)
(* truncation occurs they sum to the total before.                          *)
C21_SumMatchesTarget ==
    TruncationDone =>
        LET sum == SumAllocated(call.out.results) IN
        IF TotalBefore > call.targetTokens
        THEN /\ Lt(Num(call.targetTokens - 1), sum)
             /\ Lt(sum, Num(call.targetTokens + 1))
        ELSE Eq(sum, Num(TotalBefore))

(* C22: for any item list and any integer target, every result has         *)
(* 0 <= allocated_tokens <= tokens and allocated_chars >= 0.                *)
C22_AllocationsInRange ==
    TruncationDone =>
        \A r \in Results :
            /\ Le(Num(0), r.allocatedTokens)
            /\ Le(r.allocatedTokens, Num(ItemOf(r).tokens))
            /\ Le(Num(0), r.allocatedChars)

(* C23: with a target <= 0 every item is allocated 0 tokens and 0          *)
(* characters.                                                              *)
C23_NoTargetAllocatesZero ==
    (TruncationDone /\ call.targetTokens <= 0) =>
        \A r \in Results :
            /\ Eq(r.allocatedTokens, Num(0))
            /\ Eq(r.allocatedChars, Num(0))

(* C24: when the tokens sum to at most the target, the mode is             *)
(* no-truncation, every item is allocated its own tokens, no item is        *)
(* flagged truncated or protected, itemsProtected = itemsTruncated = 0 and  *)
(* totalTokensAfter = totalTokensBefore.                                    *)
C24_NoTruncation ==
    (TruncationDone /\ TotalBefore <= call.targetTokens) =>
        /\ call.out.stats.mode = "no-truncation"
        /\ {r.name : r \in Results} = 1..Len(call.items)
        /\ \A r \in Results :
              /\ Eq(r.allocatedTokens, Num(ItemOf(r).tokens))
              /\ ~r.truncated
              /\ ~r.protected
        /\ call.out.stats.itemsProtected = 0
        /\ call.out.stats.itemsTruncated = 0
        /\ call.out.stats.totalTokensAfter = call.out.stats.totalTokensBefore
        /\ call.out.stats.totalTokensBefore = TotalBefore

(* a list of several items that exactly fills the target was passed through *)
C24_Witness ==
    /\ TruncationDone
    /\ Len(call.items) >= 2
    /\ TotalBefore = call.targetTokens
    /\ \A i \in 1..Len(call.items) : call.items[i].tokens > 0
    /\ call.out.stats.mode = "no-truncation"

(* C25: in protection mode every item below the average tax                *)
(* (sum - target) / N is flagged protected, keeps its tokens and is not     *)
(* truncated; every other item keeps tokens - (tokens / above_sum) *        *)
(* deficit, so all of them keep the same fraction of their tokens.          *)
C25_ProtectionMode ==
    (TruncationDone /\ call.out.stats.mode = "protection") =>
        LET deficit == TotalBefore - call.targetTokens
            above_sum == TotalBefore - SumOver(Below)
        IN /\ {r.name : r \in Results} = 1..Len(call.items)
           /\ Len(call.out.results) = Len(call.items)
           /\ \A r \in Results :
                 IF r.name \in Below
                 THEN /\ r.protected
                      /\ Eq(r.allocatedTokens, Num(ItemOf(r).tokens))
                      /\ ~r.truncated
                 ELSE /\ ~r.protected
                      /\ Eq(r.allocatedTokens,
                            Plus(Num(ItemOf(r).tokens),
                                 Div(0 - ItemOf(r).tokens * deficit,
                                     above_sum)))
           /\ \A r, q \in Results :
                 (r.name \notin Below /\ q.name \notin Below) =>
                    Eq([n |-> r.allocatedTokens.n * ItemOf(q).tokens,
                        d |-> r.allocatedTokens.d],
                       [n |-> q.allocatedTokens.n * ItemOf(r).tokens,
                        d |-> q.allocatedTokens.d])

(* a small item was protected while two larger items of different sizes     *)
(* shared the whole deficit                                                 *)
C25_Witness ==
    /\ TruncationDone
    /\ call.out.stats.mode = "protection"
    /\ call.out.stats.itemsProtected = 1
    /\ call.out.stats.itemsTruncated = 2
    /\ \E r, q \in Results :
          /\ r.truncated /\ q.truncated
          /\ ItemOf(r).tokens < ItemOf(q).tokens

(* C26: when truncation is needed and the items below the average tax sum  *)
(* to more than the target, the mode is fallback, no item is flagged        *)
(* protected and every item is allocated tokens * target / sum.             *)
C26_FallbackMode ==
    (/\ TruncationDone
     /\ TotalBefore > call.targetTokens
     /\ SumOver(Below) > call.targetTokens) =>
        /\ call.out.stats.mode = "fallback"
        /\ {r.name : r \in Results} = 1..Len(call.items)
        /\ \A r \in Results :
              /\ ~r.protected
              /\ SameNumber(r.allocatedTokens,
                            Div(ItemOf(r).tokens * call.targetTokens,
                                TotalBefore))

(* several items, the ones below the average tax alone exceeding a          *)
(* positive target, were all scaled down                                    *)
C26_Witness ==
    /\ TruncationDone
    /\ call.out.stats.mode = "fallback"
    /\ call.targetTokens > 0
    /\ Len(call.items) >= 2
    /\ Below # {}
    /\ \A r \in Results : r.truncated

(* ---------------- truncateContent: C27 ---------------- *)
(* C27: for every content and every limit maxChars >= 0, a content no       *)
(* longer than maxChars is returned unchanged; otherwise the result has     *)
(* exactly maxChars characters, ends with the marker, and before the marker *)
(* holds the first maxChars - len(marker) characters of the content.        *)
C27_TruncatedToLimit ==
    (call.fn = "truncateContent" /\ call.done) =>
        IF Len(call.content) <= call.maxChars
        THEN call.out = call.content
        ELSE LET kept == call.maxChars - Len(ellipsis) IN
             /\ Len(call.out) = call.maxChars
             /\ Len(call.out) >= Len(ellipsis)
             /\ SubSeq(call.out, Len(call.out) - Len(ellipsis) + 1,
                       Len(call.out)) = ellipsis
             /\ SubSeq(call.out, 1, Len(call.out) - Len(ellipsis))
                    = SubSeq(call.content, 1, kept)

(* ---------------- normalizeType: C28 ---------------- *)
(* C28: normalizeType is idempotent, normalizeType(normalizeType(x)) =      *)
(* normalizeType(x) for every input string x, and each of the 12 canonical  *)
(* DCMI values is a fixed point.                                            *)
C28_Idempotent ==
    (call.fn = "normalizeType" /\ call.done) =>
        /\ Len(call.results) = 2
        /\ call.results[2] = call.results[1]
        /\ (\E i \in 1..Len(validTypes) : validTypes[i] = call.type)
              => call.results[1] = call.type

(* ---------------- context cache on retry: C29 ---------------- *)
(* C29: a PI whose extraction attempt fails and is set back to pending      *)
(* keeps the context cached on its first fetch, so that its next attempt    *)
(* loads the cache instead of fetching again.                               *)
C29_RetryKeepsContext ==
    [][\A p \in PIs :
          (/\ p \in DOMAIN pi_state
           /\ p \in DOMAIN pi_state'
           /\ pi_state[p].status = "processing"
           /\ pi_state'[p].status = "pending"
           /\ p \in context_meta)
          => p \in context_meta']_vars

(* ---------------- fetchPinaxContext: C30 ---------------- *)
FetchDone == call.fn = "fetchPinaxContext" /\ call.done
Returned == {call.out.files[i].name : i \in 1..Len(call.out.files)}
(* the files whose own fetch succeeded *)
FetchedFiles ==
    {FileName(<< "[PREVIOUS] ", "pinax" >>, ".json") : x \in
        {x \in {PinaxJson} : /\ x \in call.entity.components
                              /\ call.downloads[x] = "ok"}}
    \cup {name \in call.entity.components \ {PinaxJson} :
             /\ name.ext \in {".txt", ".ref.json"}
             /\ call.downloads[name] = "ok"}
    \cup {FileName(<< "child_pinax_", c >>, ".json") : c \in
             {c \in call.entity.children_pi : call.childOutcome[c] = "ok"}}
(* some fetch other than the PI's own getEntity failed *)
SomeFetchFailed ==
    \/ \E name \in call.entity.components :
          name.ext # ".jpg" /\ call.downloads[name] # "ok"
    \/ \E c \in call.entity.children_pi :
          call.childOutcome[c] \in {"entityFail", "downloadFail"}

(* C30: fetchPinaxContext fails only when getEntity of the requested PI     *)
(* fails; a failed download (previous pinax.json, text component, .ref.json *)
(* sidecar) or a failed getEntity/download of a child only omits that file, *)
(* the files whose fetch succeeded are all returned.                        *)
C30_BestEffortContext ==
    FetchDone =>
        /\ call.out.threw <=> ~call.entity.ok
        /\ call.entity.ok =>
              /\ Returned = FetchedFiles
              /\ Len(call.out.files) = Cardinality(FetchedFiles)

(* the previous pinax.json and a child failed to load, a text file, a       *)
(* sidecar and another child were still returned                            *)
C30_Witness ==
    /\ FetchDone
    /\ call.entity.ok
    /\ PinaxJson \in call.entity.components
    /\ call.downloads[PinaxJson] = "fail"
    /\ call.entity.children_pi = Children
    /\ call.childOutcome["childA"] = "entityFail"
    /\ ~call.out.threw
    /\ Cardinality(Returned) = 3

(* ---------------- rendered context and the budget: C31 ---------------- *)
RECURSIVE TotalChars(_)
TotalChars(files) ==
    IF Len(files) = 0 THEN 0
    ELSE Len(files[1].content) + TotalChars(Tail(files))
RECURSIVE TotalEstimate(_)
TotalEstimate(files) ==
    IF Len(files) = 0 THEN 0
    ELSE estimateTokens(Len(files[1].content)) + TotalEstimate(Tail(files))
(* the Context Fetcher has returned its file list *)
Fetched == call.fn = "buildContentSection"

(* C31: with budget T = floor(MODEL_MAX_TOKENS * CONTENT_TOKEN_PROPORTION)  *)
(* >= 0, whenever the raw files exceeded the budget, the contents of the    *)
(* returned files, markers included, total at most 4 * T characters.        *)
C31_ContextFitsBudget ==
    (Fetched /\ TotalEstimate(call.files) > targetTokensOf(call.modelMaxTokens))
        => TotalChars(call.fetched) <= 4 * targetTokensOf(call.modelMaxTokens)

(* ---------------- order of the phases: C32 ---------------- *)
PhaseRank(phase) ==
    CASE phase = "PROCESSING" -> 1
      [] phase = "PUBLISHING" -> 2
      [] phase = "CALLBACK" -> 3
      [] OTHER -> 4
(* a step within one admitted chunk run *)
SameRun == HasChunk /\ Len(batch_state') = 1 /\ response'.status # "accepted"

(* C32 as stated: within one admitted chunk run the phase never moves      *)
(* backward in the order PROCESSING < PUBLISHING < CALLBACK < DONE, also     *)
(* when a pass raises an uncaught exception.                                *)
C32_PhaseNeverBackward ==
    [][SameRun => PhaseRank(Phase') >= PhaseRank(Phase)]_vars

C32_BackwardStep ==
    (SameRun /\ PhaseRank(Phase') < PhaseRank(Phase))
        => /\ Phase = "DONE"
           /\ Phase' = "CALLBACK"
           /\ Thrown
           /\ batch_state'[1].global_error # NULL
C32_LateStep ==
    (SameRun /\ Phase \in {"CALLBACK", "DONE", "ERROR"})
        => Phase' \in {"CALLBACK", "DONE"}
C32_DoneStep ==
    (HasChunk /\ Phase = "DONE" /\ batch_state' # batch_state)
        => \/ NoRows' /\ ~Thrown
           \/ response'.status = "accepted"
           \/ Thrown /\ Len(batch_state') = 1 /\ Phase' = "CALLBACK"
(* C32 amended: within one admitted chunk run the phase moves backward only *)
(* from DONE to CALLBACK, when the pass in DONE raises an exception that    *)
(* the alarm handler catches (global_error is then set); a chunk in         *)
(* CALLBACK or DONE never returns to PROCESSING or PUBLISHING, and the      *)
(* chunk row of a chunk in DONE is changed only by cleanup, by a fresh      *)
(* admission or by that catch block.                                        *)
C32_BackwardOnlyByCatchInDone ==
    [][C32_BackwardStep /\ C32_LateStep /\ C32_DoneStep]_vars
(* A chunk that had completed its callback is back in CALLBACK with a       *)
(* global error: the pass in DONE threw.                                    *)
C32_Witness ==
    /\ HasChunk
    /\ Phase = "CALLBACK"
    /\ batch_state[1].completed_at
    /\ batch_state[1].global_error # NULL
    /\ posts >= 1

(* ---------------- status of a PI within a run: C33 ---------------- *)
StatusChanges ==
    { << "pending", "processing" >>, << "processing", "done" >>,
      << "processing", "pending" >>, << "processing", "error" >>,
      << "done", "error" >> }
C33_StatusStep ==
    \A p \in Rows \cap DOMAIN pi_state' :
        response'.status # "accepted" =>
            \/ pi_state'[p].status = pi_state[p].status
            \/ << pi_state[p].status, pi_state'[p].status >> \in StatusChanges
C33_PublishStep ==
    \A p \in PIs :
        (/\ Len(store'[p]) > Len(store[p])
         /\ store'[p][Len(store'[p])].by = "worker")
            => /\ p \in Rows
               /\ pi_state[p].status = "done"
               /\ pi_state[p].pinax_cid = NULL
(* C33: within one chunk run a PI's status changes only along pending ->    *)
(* processing, processing -> done, processing -> pending, processing ->     *)
(* error and done -> error; so error is absorbing and a done PI never       *)
(* returns to pending or processing; and the worker appends a version only  *)
(* for a PI whose row is done without a pinax_cid, never for one whose      *)
(* publish failed.                                                          *)
C33_StatusTransitions == [][C33_StatusStep /\ C33_PublishStep]_vars
(* One PI ended in error because its publish failed, while another was      *)
(* retried after a failed extraction and then published.                    *)
C33_Witness ==
    \E p, q \in Rows :
        /\ pi_state[p].status = "error"
        /\ pi_state[p].error = "publish"
        /\ pi_state[p].pinax_json # NULL
        /\ pi_state[q].status = "done"
        /\ pi_state[q].retry_count >= 1
        /\ Published(pi_state[q])

(* ---------------- one version per PI and run: C34 ---------------- *)
WorkerAppends(p) ==
    Cardinality({i \in 1..Len(store[p]) : store[p][i].by = "worker"})

(* C34: within one admitted chunk run at most one appendVersion call of the *)
(* worker succeeds for each PI, also when the worker is restarted or the    *)
(* alarm handler re-run between a successful append and the persistence of  *)
(* pinax_cid and new_tip. (Stated for the first run of the worker.)         *)
C34_AtMostOneAppend ==
    admissions <= 1 => \A p \in PIs : WorkerAppends(p) <= 1

(* ---------------- status of a payload with a global error: C35 ---------------- *)
(* C35 as stated: a callback payload that carries a global error (its      *)
(* error field is set because a phase pass threw) does not have status      *)
(* "success".                                                               *)
C35_GlobalErrorNotSuccess ==
    (lastPayload # << >> /\ lastPayload[1].error # NULL)
        => lastPayload[1].status # "success"

(* C35 amended: the status of a payload that carries a global error is      *)
(* computed from the PI rows alone: "success" exactly when no row has       *)
(* status error, "error" exactly when some row has and no row is done with  *)
(* a new_tip, "partial" otherwise.                                          *)
C35_StatusFromRowsAlone ==
    (lastPayload # << >> /\ lastPayload[1].error # NULL) =>
        /\ lastPayload[1].status = "success" <=> lastPayload[1].failed = 0
        /\ lastPayload[1].status = "error" <=>
              (lastPayload[1].failed > 0 /\ lastPayload[1].succeeded = 0)
        /\ lastPayload[1].status \in {"success", "error", "partial"}
(* The first pass of a chunk of one PI threw: the payload carries the       *)
(* global error, reports the PI as an error entry and has status success.   *)
C35_Witness ==
    /\ lastPayload # << >>
    /\ lastPayload[1].error # NULL
    /\ lastPayload[1].status = "success"
    /\ lastPayload[1].total = 1
    /\ \E p \in DOMAIN lastPayload[1].results :
          lastPayload[1].results[p] = "error"

C37_OneEntryPerAdmittedPI ==
    pc = "callback_wait" =>
        /\ lastPayload # << >>
        /\ DOMAIN lastPayload[1].results = pi_list
        /\ lastPayload[1].total = Cardinality(pi_list)
(* the PIs of the chunk are those of the request that was accepted *)
C37_AdmittedStep ==
    \A pis \in ChunkInputs :
        (handleProcess(pis) /\ response'.status = "accepted")
            => pi_list' = pis
C37_ListKeptStep ==
    (HasChunk /\ Len(batch_state') = 1 /\ response'.status # "accepted")
        => pi_list' = pi_list
C38_ResultsInInputOrder ==
    TruncationDone =>
        /\ Len(call.out.results) = Len(call.items)
        /\ \A i \in 1..Len(call.items) :
              call.out.results[i].name = call.items[i].name

(* ---------------- truncating twice: C39 ---------------- *)
ContentOf(files, name) ==
    files[CHOOSE i \in 1..Len(files) : files[i].name = name].content
(* the prompt builder has rendered the files of the context *)
Displayed == call.fn = "buildContentSection" /\ call.done

(* C39: the allocate-and-render step is idempotent for a fixed target:      *)
(* applied by the prompt builder to the file list the Context Fetcher       *)
(* produced with the same target, it returns every file's content           *)
(* unchanged.                                                               *)
C39_SecondTruncationChangesNothing ==
    Displayed =>
        /\ Len(call.displayed) = Len(call.fetched)
        /\ \A i \in 1..Len(call.fetched) :
              ContentOf(call.displayed, call.fetched[i].name)
                  = call.fetched[i].content

(* ---------------- the validator's verdict: C40 ---------------- *)
ValidatorDone == call.fn = "validatePinaxMetadata" /\ call.done

(* C40: validatePinaxMetadata returns valid = true only if no message of    *)
(* field_validations carries the warning-sign prefix: a record whose id,    *)
(* type, created, language or access_url is present but fails its format    *)
(* rule is not reported as valid.                                           *)
C40_ValidOnlyIfFormatsHold ==
    (ValidatorDone /\ call.out.valid) =>
        \A field \in DOMAIN call.out.field_validations :
            call.out.field_validations[field].ok

====
